---- MODULE Spec2Model ----
(***************************************************************************)
(* A model of the rauta IRC server: the line reader and the write path of  *)
(* the connection worker (client_io.rs), the registration state machine    *)
(* and the dispatcher (message_handler/, server.rs) and the channel actor  *)
(* (channel/channel.rs).  Each part has its own specification over the     *)
(* variables it owns; the other variables stay at their initial values.    *)
(***************************************************************************)
EXTENDS Integers, Sequences, FiniteSets, TLC

VARIABLES
    \* ---- MessageReader (client_io.rs) ----
    sock,       \* bytes the peer has sent that no read has taken yet
    sent,       \* every byte the peer has sent so far (history)
    reader,     \* the MessageReader: buf, pos, message, error, got_r, off
    yields,     \* the items the reader's iterator has produced (history)
    peak,       \* the longest the accumulator `message` has ever been
    \* ---- Worker's write path (client_io.rs) ----
    buffers,    \* the connection's VecDeque<Cursor<Vec<u8>>>: data and position
    wire,       \* the bytes the socket has accepted, in order (history)
    enq,        \* the concatenation of every buffer enqueued (history)
    wpc,        \* where the worker is: "idle", or "loop" inside writable
    \* ---- Worker's read path, dispatcher and registration ----
    conn,       \* the connections the Worker has registered (keys of its maps)
    info,       \* each client's User block: nick, user, realname, status
    linein,     \* per connection: framed lines readable has not looked at yet
    serverQ,    \* the dispatcher's event queue (mio::Sender<server::Event>)
    clientQ,    \* the Worker's event queue (mio::Sender<client_io::Event>)
    clients,    \* Server.clients
    nicks,      \* Server.nicks: nickname -> ClientId, 0 where vacant
    alive,      \* the dispatcher thread has not panicked
    nlines,     \* the number of lines the clients have sent
    welcomes,   \* per client: the 001 replies sent to it (history)
    lastInvoke, \* the last call of message_handler::invoke (history)
    script,     \* per client: what it has sent so far (history)
    \* ---- channels (channel/channel.rs) ----
    channels,   \* Server.channels: the names that have a Proxy
    chanQ,      \* per channel: the actor's mpsc queue of posted operations
    chan,       \* per channel: the Channel the actor thread owns
    actorAlive, \* per channel: the actor thread has not panicked
    posted,     \* per channel: the operations sent through the Proxy (history)
    executed,   \* per channel: the operations the actor has run (history)
    \* ---- the Worker's event loop ----
    hup,        \* per connection: hangup or error has been reported (history)
    reported,   \* the readiness bits the poller holds for the connection
    \* ---- accepted sockets and their ids (client.rs, client_io.rs) ----
    socks,      \* the open connections: descriptor, addresses, ClientId
    streams,    \* Worker.streams: ClientId (the token's source) -> descriptor
    accepted,   \* the number of connections accepted so far
    \* ---- a pure function under test: its argument and its result ----
    input,
    output,
    \* ---- the lock of a client's User block (client.rs) ----
    rwlock,     \* Client.info: the read guards each thread holds, the writer
    running,    \* per thread: the lock and send steps it has still to take
    started     \* the number of calls begun so far

fvars == <<sock, sent, reader, yields, peak>>
wvars == <<buffers, wire, enq, wpc>>
svars == <<conn, info, linein, serverQ, clientQ, clients, nicks, alive,
           nlines, welcomes, lastInvoke, script>>

cvars == <<channels, chanQ, chan, actorAlive, posted, executed>>

evars == <<hup, reported>>
ivars == <<socks, streams, accepted>>
pvars == <<input, output>>
lvars == <<rwlock, running, started>>

vars == <<fvars, wvars, svars, cvars, evars, ivars, pvars, lvars>>

\* What a step of one part leaves alone.
OnlyReader == UNCHANGED <<wvars, svars, cvars, evars, ivars, pvars, lvars>>
OnlyWriter == UNCHANGED <<fvars, svars, cvars, evars, ivars, pvars, lvars>>
OnlyServer == UNCHANGED <<fvars, wvars, cvars, evars, ivars, pvars, lvars>>
NoIO == UNCHANGED <<fvars, wvars, evars, ivars, pvars, lvars>>
OnlyIds == UNCHANGED <<fvars, wvars, svars, cvars, evars, pvars, lvars>>
OnlyPure == UNCHANGED <<fvars, wvars, svars, cvars, evars, ivars, lvars>>
OnlyLocks == UNCHANGED <<fvars, wvars, svars, cvars, evars, ivars, pvars>>

Min(a, b) == IF a < b THEN a ELSE b
Max(a, b) == IF a > b THEN a ELSE b

(***************************************************************************)
(* MessageReader                                                           *)
(***************************************************************************)

\* The line limit (512 in the program), scaled down.
Capacity == 4
\* The number of bytes a peer sends in one behaviour.
MaxStream == 6

CR  == 13
LF  == 10
NUL == 0
Letters == {97, 98}
Byte == {CR, LF, NUL} \cup Letters

\* usize::next_power_of_two, as RingBuf::new rounds its capacity.
RECURSIVE NextPow2From(_, _)
NextPow2From(p, n) == IF p >= n THEN p ELSE NextPow2From(2 * p, n)
RingCap == NextPow2From(1, Capacity)

\* MessageReader::new
NewReader ==
    [buf |-> <<>>, pos |-> 0, message |-> <<>>, error |-> FALSE,
     got_r |-> FALSE, off |-> 0]

\* Buf::bytes of the ring: the readable bytes up to the end of the storage.
RingBytes(r) == SubSeq(r.buf, 1, Min(Len(r.buf), RingCap - r.pos))

\* MutBuf::mut_bytes of the ring: the room up to the end of the storage.
RingRoom(r) ==
    LET from == (r.pos + Len(r.buf)) % RingCap
    IN  Min(RingCap - Len(r.buf), RingCap - from)

\* Buf::advance of the ring: drops cnt readable bytes, at most all of them.
RingAdvance(r, cnt) ==
    LET n == Min(cnt, Len(r.buf))
    IN  [r EXCEPT !.buf = SubSeq(r.buf, n + 1, Len(r.buf)),
                  !.pos = (r.pos + n) % RingCap,
                  !.off = r.off + n]

\* The loop of clear_error over the readable bytes; j is the 1-based place,
\* i and got_r the loop's locals.  Returns i and whether "\r\n" was seen.
RECURSIVE ClearScan(_, _, _, _)
ClearScan(bytes, j, i, got_r) ==
    IF j > Len(bytes) THEN [i |-> i, found |-> FALSE]
    ELSE IF bytes[j] = CR THEN ClearScan(bytes, j + 1, j, TRUE)
    ELSE IF bytes[j] = LF THEN
        IF got_r THEN [i |-> i, found |-> TRUE]
        ELSE ClearScan(bytes, j + 1, i, got_r)
    ELSE ClearScan(bytes, j + 1, j - 1, got_r)

\* MessageReader::clear_error
clear_error(r) ==
    IF ~r.error THEN r
    ELSE LET s  == ClearScan(RingBytes(r), 1, 0, FALSE)
             r1 == IF s.found
                   THEN [r EXCEPT !.error = FALSE, !.got_r = FALSE]
                   ELSE r
         IN  RingAdvance(r1, s.i + 1)

\* An off-by-one in the length test: the limit is compared with <=.
PushByteLax(msg, c) ==
    LET m == Append(msg, c)
    IN  [message |-> m, res |-> IF Len(m) <= Capacity THEN "none" ELSE "toolong"]

\* What the reader does with one ordinary byte c: append it, then compare the
\* length with the capacity.
PushByte(msg, c) ==
    LET m == Append(msg, c)
    IN  [message |-> m, res |-> IF Len(m) < Capacity THEN "none" ELSE "toolong"]

\* A `\r` arm that keeps the byte.
OnCarriageReturn_kept(msg) == Append(msg, CR)

\* The `\r` arm of next: got_r is set and the byte is not pushed.
OnCarriageReturn(msg) == msg

\* The loop of next over the readable bytes.  Returns the 0-based index i of
\* the last byte looked at, the result, the accumulator and got_r, and the
\* longest the accumulator has been.
RECURSIVE NextScan(_, _, _, _, _)
NextScan(bytes, j, msg, got_r, pk) ==
    IF j > Len(bytes)
    THEN [i |-> Max(Len(bytes) - 1, 0), res |-> "none", message |-> msg,
          got_r |-> got_r, peak |-> pk]
    ELSE LET b == bytes[j] IN
         IF b = CR
         THEN NextScan(bytes, j + 1, OnCarriageReturn(msg), TRUE, pk)
         ELSE IF b = LF THEN
            IF got_r
            THEN [i |-> j - 1, res |-> "line", message |-> msg,
                  got_r |-> FALSE, peak |-> pk]
            ELSE [i |-> j - 1, res |-> "malformed", message |-> msg,
                  got_r |-> got_r, peak |-> pk]
         ELSE IF b = NUL
         THEN [i |-> j - 1, res |-> "malformed", message |-> msg,
               got_r |-> got_r, peak |-> pk]
         ELSE LET p == PushByte(msg, b) IN
              IF p.res = "none"
              THEN NextScan(bytes, j + 1, p.message, got_r,
                            Max(pk, Len(p.message)))
              ELSE [i |-> j - 1, res |-> p.res, message |-> p.message,
                    got_r |-> got_r, peak |-> Max(pk, Len(p.message))]

\* Iterator::next of the MessageReader.  item is "none" for None; otherwise
\* the item yielded, with the stream offset of the byte that completed it.
ReaderNext(r0) ==
    LET r1 == clear_error(r0)
        s  == NextScan(RingBytes(r1), 1, r1.message, r1.got_r, 0)
        r2 == RingAdvance([r1 EXCEPT !.got_r = s.got_r], s.i + 1)
    IN  CASE s.res = "line" ->
               [r |-> [r2 EXCEPT !.message = <<>>],
                item |-> [kind |-> "ok", line |-> s.message, at |-> r2.off],
                peak |-> s.peak]
          [] s.res = "none" ->
               [r |-> [r2 EXCEPT !.message = s.message],
                item |-> [kind |-> "none"], peak |-> s.peak]
          [] OTHER ->
               [r |-> [r2 EXCEPT !.message = <<>>, !.error = TRUE],
                item |-> [kind |-> s.res, line |-> <<>>, at |-> r2.off],
                peak |-> s.peak]

\* `for message in messages` of Worker::readable: next until it gives None.
RECURSIVE Drain(_, _, _)
Drain(r, out, pk) ==
    LET n == ReaderNext(r) IN
    IF n.item.kind = "none"
    THEN [r |-> n.r, out |-> out, peak |-> Max(pk, n.peak)]
    ELSE Drain(n.r, Append(out, n.item), Max(pk, n.peak))

\* MessageReader::feed: one read of n bytes into the ring's free room.
feed(r, bytes) == [r EXCEPT !.buf = r.buf \o bytes]

\* ---- C7 ----
OkYields == {k \in 1..Len(yields) : yields[k].kind = "ok"}
ErrYields == {k \in 1..Len(yields) : yields[k].kind \in {"malformed", "toolong"}}

\* C7: every line yielded as Ok is at most Capacity bytes long, and the
\* accumulator `message` never holds more than Capacity bytes, neither
\* between two calls nor inside the loop of next.
C7_LineBounded ==
    /\ \A k \in OkYields : Len(yields[k].line) <= Capacity
    /\ Len(reader.message) <= Capacity
    /\ peak <= Capacity

\* An overlong line was met: the accumulator was filled and the reader
\* reported MessageTooLong.
C7_Witness ==
    /\ peak = Capacity
    /\ \E k \in ErrYields : yields[k].kind = "toolong"

\* ---- C8 ----
\* sent[p], sent[p+1] is a "\r\n" pair.
IsPair(p) == p >= 1 /\ p + 1 <= Len(sent) /\ sent[p] = CR /\ sent[p + 1] = LF

\* p is the first "\r\n" pair that starts after offset e.
NextPairAfter(e, p) ==
    /\ p > e
    /\ IsPair(p)
    /\ \A x \in (e + 1)..(p - 1) : ~IsPair(x)

\* sent[s..q-1] followed by the pair at q is a well-formed line.
WellFormedLine(s, q) ==
    /\ q >= s
    /\ IsPair(q)
    /\ \A x \in s..(q - 1) : sent[x] \in Letters
    /\ q - s < Capacity

\* C8: after a framing error reported at stream offset e, the well-formed
\* line that starts right after the next "\r\n" pair is yielded as Ok,
\* byte for byte, once the reader has consumed its terminator.
C8_Resync ==
    \A k \in ErrYields :
      \A p, q \in 1..Len(sent) :
        ( /\ NextPairAfter(yields[k].at, p)
          /\ WellFormedLine(p + 2, q)
          /\ reader.off >= q + 1 )
        => \E m \in OkYields :
              /\ yields[m].at = q + 1
              /\ yields[m].line = SubSeq(sent, p + 2, q - 1)


InitReader ==
    /\ sock = <<>>
    /\ sent = <<>>
    /\ reader = NewReader
    /\ yields = <<>>
    /\ peak = 0

\* The peer writes one more byte to the connection.
PeerSend ==
    /\ Len(sent) < MaxStream
    /\ \E b \in Byte :
         /\ sock' = Append(sock, b)
         /\ sent' = Append(sent, b)
    /\ UNCHANGED <<reader, yields, peak>>
    /\ OnlyReader

\* Worker::readable on a readable event: one read of whatever part of the
\* pending bytes the socket hands over, then every item the reader yields.
ReadBytes(n) ==
    /\ LET d == Drain(feed(reader, SubSeq(sock, 1, n)), <<>>, 0) IN
         /\ reader' = d.r
         /\ yields' = yields \o d.out
         /\ peak' = Max(peak, d.peak)
    /\ sock' = SubSeq(sock, n + 1, Len(sock))
    /\ UNCHANGED sent
Readable ==
    /\ sock # <<>>
    /\ \E n \in 0..Min(Len(sock), RingRoom(reader)) :
         /\ (n = 0) = (RingRoom(reader) = 0)
         /\ ReadBytes(n)
    /\ OnlyReader

NextReader == PeerSend \/ Readable

(***************************************************************************)
(* The write path of the Worker                                            *)
(***************************************************************************)

\* The longest outbound buffer, and the number of bytes enqueued and written
\* in one behaviour.
MaxBufLen == 3
MaxOut == 5
MaxWritten == 6

\* Worker::new and register_connection: an empty queue for the connection.
InitWriter ==
    /\ buffers = <<>>
    /\ wire = <<>>
    /\ enq = <<>>
    /\ wpc = "idle"

\* What writable passes to stream.write for the head buffer.
WriteArg(buffer) == buffer.data

\* The Ok(bytes) arm of writable for the head buffer: the new queue.
AfterWrite(bufs, bytes) ==
    LET buffer  == Head(bufs)
        max_pos == Len(buffer.data)
        new_pos == buffer.pos + bytes
    IN  IF new_pos = max_pos
        THEN Tail(bufs)
        ELSE <<[buffer EXCEPT !.pos = new_pos]>> \o Tail(bufs)

\* Worker::notify for Event::Message / SharedMessage: the buffer is pushed
\* to the back of the queue and writable is entered.  The bytes are numbered
\* so that each byte enqueued is told from every other.
Notify ==
    /\ wpc = "idle"
    /\ \E len \in 1..MaxBufLen :
         /\ Len(enq) + len <= MaxOut
         /\ LET vec == [k \in 1..len |-> Len(enq) + k] IN
              /\ buffers' = Append(buffers, [data |-> vec, pos |-> 0])
              /\ enq' = enq \o vec
    /\ wpc' = "loop"
    /\ UNCHANGED wire
    /\ OnlyWriter

\* Worker::ready with a writable event: writable is entered.
WritableEvent ==
    /\ wpc = "idle"
    /\ wpc' = "loop"
    /\ UNCHANGED <<buffers, wire, enq>>
    /\ OnlyWriter

\* One turn of the loop of writable in which the socket accepts `bytes`
\* bytes of what it is given.
WriteOk ==
    /\ wpc = "loop"
    /\ buffers # <<>>
    /\ \E bytes \in 1..Len(WriteArg(Head(buffers))) :
         /\ Len(wire) + bytes <= MaxWritten
         /\ wire' = wire \o SubSeq(WriteArg(Head(buffers)), 1, bytes)
         /\ buffers' = AfterWrite(buffers, bytes)
    /\ UNCHANGED <<enq, wpc>>
    /\ OnlyWriter

\* The write fails (the socket would block): the loop is left.
WriteErr ==
    /\ wpc = "loop"
    /\ buffers # <<>>
    /\ wpc' = "idle"
    /\ UNCHANGED <<buffers, wire, enq>>
    /\ OnlyWriter

\* The queue is empty: the loop ends.
WriteDone ==
    /\ wpc = "loop"
    /\ buffers = <<>>
    /\ wpc' = "idle"
    /\ UNCHANGED <<buffers, wire, enq>>
    /\ OnlyWriter

NextWriter == Notify \/ WritableEvent \/ WriteOk \/ WriteErr \/ WriteDone

\* ---- C10 ----
\* C10: the bytes handed to the socket are the enqueued buffers in enqueue
\* order, each byte once: what was written is always the beginning of what
\* was enqueued, and all of it once the queue is empty.
C10_WrittenOnce ==
    /\ Len(wire) <= Len(enq)
    /\ wire = SubSeq(enq, 1, Len(wire))
    /\ (buffers = <<>> => wire = enq)

(***************************************************************************)
(* Registration: the Worker's gate, the dispatcher, NICK, USER and CAP     *)
(***************************************************************************)

\* The connections of one behaviour, the lines they send in all, and the
\* lengths the two event queues and a connection's unread input may reach.
NClients == 2
MaxLines == 4
MaxServerQ == 2
MaxClientQ == 1
MaxLineIn == 2

Clients == 1..NClients
Nicks == {"a", "b"}

\* user::Status.  Negotiating wraps the status the negotiation suspended.
Plain == {"Disconnected", "Connected", "NickRegistered", "NameRegistered",
          "Registered"}
Negotiating(s) == "Negotiating(" \o s \o ")"
IsNegotiating(s) == \E p \in Plain : s = Negotiating(p)
STATUS_NEG_NAMEREG == Negotiating("NameRegistered")
STATUS_NEG_NICKREG == Negotiating("NickRegistered")
STATUS_NEG_CONNECT == Negotiating("Connected")
STATUS_NEG_REG == Negotiating("Registered")

\* User::new
NewUser == [nick |-> "*", user |-> "", realname |-> "John Doe",
            status |-> "Connected"]

\* A parsed line.  A parameter is the sequence of its pieces: the items
\* between commas, or the letters of a mode string.
Msg(cmd, params) == [cmd |-> cmd, params |-> params]
Word(s) == <<s>>
Str(param) == IF Len(param) = 0 THEN "" ELSE param[1]

\* server::Event and client_io::Event
Connected(c) == [type |-> "Connected", id |-> c, msg |-> Msg("", <<>>)]
Disconnected(c) == [type |-> "Disconnected", id |-> c, msg |-> Msg("", <<>>)]
InboundMessage(c, m) == [type |-> "InboundMessage", id |-> c, msg |-> m]
Reply(c, code, nick) == [type |-> "Message", id |-> c, code |-> code, nick |-> nick]

\* Client::send_response: the reply carries the client's nickname of the
\* moment as its first parameter and goes to the Worker's queue.
send_response(q, c, code) == Append(q, Reply(c, code, info[c].nick))

\* misc::is_reserved_nick
is_reserved_nick(n) == n \in {"*", "NickServ", "ChanServ", "anonymous"}

\* The test of Worker::readable on a parsed line with a known command:
\* whether the line is forwarded to the dispatcher.
GatePass(status, cmd) ==
    status = "Registered" \/ cmd \in {"CAP", "NICK", "USER", "QUIT"}

\* nick::Handler::from_message: "ok" or the error reply.
NickFromMessage(m) ==
    IF Len(m.params) = 0 THEN "431"
    ELSE IF is_reserved_nick(Str(m.params[1])) THEN "432"
    ELSE "ok"

\* A NICK handler that never completes a registration.
NickStatusNoRegister(status) ==
    [status |-> "NickRegistered", register |-> FALSE]

\* nick::Handler::invoke, the match on the status once the nickname is set.
NickStatus(status) ==
    CASE status = "NameRegistered" ->
            [status |-> "Registered", register |-> TRUE]
      [] status = STATUS_NEG_NAMEREG ->
            [status |-> STATUS_NEG_REG, register |-> FALSE]
      [] status # STATUS_NEG_NAMEREG /\ IsNegotiating(status) ->
            [status |-> STATUS_NEG_NICKREG, register |-> FALSE]
      [] OTHER ->
            [status |-> "NickRegistered", register |-> FALSE]

\* user::Handler::from_message
UserFromMessage(m) == IF Len(m.params) = 4 THEN "ok" ELSE "461"

\* A first arm that leaves Negotiating(Registered) out.
UserRejectedLax(status) ==
    status \in {"Registered", "NameRegistered", STATUS_NEG_NAMEREG}

\* user::Handler::invoke, the statuses answered with ERR_ALREADYREGISTRED.
UserRejected(status) ==
    status \in {"Registered", "NameRegistered", STATUS_NEG_NAMEREG,
                STATUS_NEG_REG}

\* user::Handler::invoke, the inner match on the status.
UserStatus(status) ==
    CASE status = STATUS_NEG_NICKREG ->
            [status |-> STATUS_NEG_REG, register |-> FALSE]
      [] status # STATUS_NEG_NICKREG /\ IsNegotiating(status) ->
            [status |-> STATUS_NEG_NAMEREG, register |-> FALSE]
      [] status = "NickRegistered" ->
            [status |-> "Registered", register |-> TRUE]
      [] OTHER ->
            [status |-> "NameRegistered", register |-> FALSE]

\* cap::Subcommand::from_slice
CapSubcommands == {"LS", "LIST", "REQ", "ACK", "NAK", "CLEAR", "END"}

\* cap::Handler::from_message
CapFromMessage(m) ==
    IF Len(m.params) = 0 \/ Str(m.params[1]) \notin CapSubcommands
    THEN "410" ELSE "ok"

\* cap::suspend_registration
suspend_registration(status) ==
    CASE IsNegotiating(status) -> status
      [] status = "NickRegistered" -> STATUS_NEG_NICKREG
      [] status = "NameRegistered" -> STATUS_NEG_NAMEREG
      [] OTHER -> STATUS_NEG_CONNECT

\* A continue_registration whose last arm returns true.
continue_registration_always(status) ==
    CASE status = STATUS_NEG_NICKREG ->
            [status |-> "NickRegistered", register |-> FALSE]
      [] status = STATUS_NEG_NAMEREG ->
            [status |-> "NameRegistered", register |-> FALSE]
      [] status = STATUS_NEG_CONNECT ->
            [status |-> "Connected", register |-> FALSE]
      [] status = STATUS_NEG_REG ->
            [status |-> "Registered", register |-> TRUE]
      [] OTHER -> [status |-> status, register |-> TRUE]

\* cap::continue_registration: the new status and the value returned.
continue_registration(status) ==
    CASE status = STATUS_NEG_NICKREG ->
            [status |-> "NickRegistered", register |-> FALSE]
      [] status = STATUS_NEG_NAMEREG ->
            [status |-> "NameRegistered", register |-> FALSE]
      [] status = STATUS_NEG_CONNECT ->
            [status |-> "Connected", register |-> FALSE]
      [] status = STATUS_NEG_REG ->
            [status |-> "Registered", register |-> TRUE]
      [] OTHER -> [status |-> status, register |-> FALSE]

\* Worker::new, Server::new: no connection, no client, no nickname.
InitServer ==
    /\ conn = {}
    /\ info = [c \in Clients |-> NewUser]
    /\ linein = [c \in Clients |-> <<>>]
    /\ serverQ = <<>>
    /\ clientQ = <<>>
    /\ clients = {}
    /\ nicks = [n \in Nicks |-> 0]
    /\ alive = TRUE
    /\ nlines = 0
    /\ welcomes = [c \in Clients |-> [n |-> 0, nick |-> "*"]]
    /\ lastInvoke = [cmd |-> "", id |-> 0, status |-> "", arg |-> ""]
    /\ script = [c \in Clients |-> [ok |-> TRUE, nick |-> FALSE,
                                     user |-> FALSE, cap |-> FALSE]]

\* Server::register / send_welcome_msg: the 001 reply, and its record.
Welcome(q, c, nick) == Append(q, Reply(c, "001", nick))
Welcomed(c, nick) ==
    [welcomes EXCEPT ![c] = [n |-> @.n + 1, nick |-> nick]]

\* The client's script is no longer the plain NICK, USER, CAP END one.
Spoiled(c) ==
    [script EXCEPT ![c] = [ok |-> FALSE, nick |-> FALSE, user |-> FALSE,
                           cap |-> FALSE]]

\* What a line sent adds to the client's script.
ScriptSend(c, m) ==
    IF ~script[c].ok THEN script
    ELSE IF m.cmd = "NICK" /\ ~script[c].nick THEN [script EXCEPT ![c].nick = TRUE]
    ELSE IF m.cmd = "USER" /\ ~script[c].user THEN [script EXCEPT ![c].user = TRUE]
    ELSE IF m = Msg("CAP", <<Word("END")>>) THEN [script EXCEPT ![c].cap = TRUE]
    ELSE Spoiled(c)

\* Worker::notify(NewConnection) and register_connection: the connection is
\* entered in the Worker's maps and announced to the dispatcher.
Connect(c) ==
    /\ c \notin conn
    /\ linein[c] = <<>>
    /\ \A k \in 1..Len(serverQ) : serverQ[k].id # c
    /\ c \notin clients
    /\ Len(serverQ) < MaxServerQ
    /\ conn' = conn \cup {c}
    /\ info' = [info EXCEPT ![c] = NewUser]
    /\ serverQ' = Append(serverQ, Connected(c))
    /\ UNCHANGED <<linein, clientQ, clients, nicks, alive, nlines,
                   welcomes, lastInvoke, script>>
    /\ OnlyServer

\* The lines a client may send while it registers.
RegMenu ==
    {Msg("NICK", <<Word(n)>>) : n \in Nicks} \cup
    {Msg("NICK", <<>>),
     Msg("USER", <<Word("u"), Word("0"), Word("*"), Word("r")>>),
     Msg("USER", <<Word("u")>>), Msg("MODE", <<Word("#c")>>)} \cup
    {Msg("CAP", <<Word(sub)>>) : sub \in {"LS", "LIST", "REQ", "END", "CLEAR"}}

\* The peer sends a line; the reader frames it and the parser parses it.
ClientSend(c, m, max) ==
    /\ c \in conn
    /\ nlines < max
    /\ Len(linein[c]) < MaxLineIn
    /\ linein' = [linein EXCEPT ![c] = Append(@, m)]
    /\ nlines' = nlines + 1
    /\ script' = ScriptSend(c, m)
    /\ UNCHANGED <<conn, info, serverQ, clientQ, clients, nicks, alive,
                   welcomes, lastInvoke>>
    /\ OnlyServer

SendReg == \E c \in Clients, m \in RegMenu : ClientSend(c, m, MaxLines)

\* One turn of the loop of Worker::readable over the parsed lines: the
\* client's status is read and the line forwarded or ignored.  (Without a
\* dispatcher the send fails and the Worker shuts its event loop down.)
WorkerRead(c) ==
    /\ alive
    /\ c \in conn
    /\ linein[c] # <<>>
    /\ Len(serverQ) < MaxServerQ
    /\ linein' = [linein EXCEPT ![c] = Tail(@)]
    /\ serverQ' = IF GatePass(info[c].status, Head(linein[c]).cmd)
                  THEN Append(serverQ, InboundMessage(c, Head(linein[c])))
                  ELSE serverQ
    /\ UNCHANGED <<conn, info, clientQ, clients, nicks, alive, nlines,
                   welcomes, lastInvoke, script>>
    /\ OnlyServer

\* Worker::notify for a Message or SharedMessage event: the bytes go to the
\* connection's write queue (the write path is specified apart).
WorkerNotify ==
    /\ clientQ # <<>>
    /\ Head(clientQ).type \in {"Message", "SharedMessage"}
    /\ clientQ' = Tail(clientQ)
    /\ UNCHANGED <<conn, info, linein, serverQ, clients, nicks, alive, nlines,
                   welcomes, lastInvoke, script>>
    /\ OnlyServer

\* The head of the dispatcher's queue is an inbound line with command cmd.
HeadIs(cmd) ==
    /\ alive
    /\ serverQ # <<>>
    /\ Head(serverQ).type = "InboundMessage"
    /\ Head(serverQ).msg.cmd = cmd

\* Server::notify, InboundMessage: message_handler::invoke is called when
\* the client is in the registry.  The record keeps the command, the client,
\* its status at the call and the first parameter of a CAP, PRIVMSG or
\* NOTICE line (the subcommand, the receiver).
Invoked(c, cmd) ==
    [cmd |-> cmd, id |-> c, status |-> info[c].status,
     arg |-> IF cmd \in {"CAP", "PRIVMSG", "NOTICE"}
                /\ Len(Head(serverQ).msg.params) > 0
             THEN Str(Head(serverQ).msg.params[1]) ELSE ""]

\* Server::notify for Connected.
DispatchConnected ==
    /\ alive
    /\ serverQ # <<>>
    /\ Head(serverQ).type = "Connected"
    /\ clients' = clients \cup {Head(serverQ).id}
    /\ serverQ' = Tail(serverQ)
    /\ UNCHANGED <<conn, info, linein, clientQ, nicks, alive, nlines,
                   welcomes, lastInvoke, script>>
    /\ OnlyServer

\* An entry that is never found occupied.
Occupied_never(nick) == FALSE

\* hash_map::Entry::Occupied for server.nicks_mut().entry(nick)
Occupied(nick) == nicks[nick] # 0

\* Server::notify for a NICK line: nick::Handler.
DispatchNick ==
    /\ HeadIs("NICK")
    /\ Len(clientQ) < MaxClientQ
    /\ serverQ' = Tail(serverQ)
    /\ LET c == Head(serverQ).id
           m == Head(serverQ).msg
       IN  IF c \notin clients
           THEN UNCHANGED <<info, clientQ, nicks, welcomes, lastInvoke, script>>
           ELSE /\ lastInvoke' = Invoked(c, "NICK")
                /\ IF NickFromMessage(m) # "ok"
                   THEN /\ clientQ' = send_response(clientQ, c, NickFromMessage(m))
                        /\ script' = Spoiled(c)
                        /\ UNCHANGED <<info, nicks, welcomes>>
                   ELSE IF Occupied(Str(m.params[1]))
                   THEN /\ clientQ' = send_response(clientQ, c, "433")
                        /\ script' = Spoiled(c)
                        /\ UNCHANGED <<info, nicks, welcomes>>
                   ELSE LET nick == Str(m.params[1])
                            s == NickStatus(info[c].status)
                        IN  /\ nicks' = [nicks EXCEPT ![nick] = c]
                            /\ info' = [info EXCEPT ![c].nick = nick,
                                                    ![c].status = s.status]
                            /\ clientQ' = IF s.register
                                          THEN Welcome(clientQ, c, nick)
                                          ELSE clientQ
                            /\ welcomes' = IF s.register
                                           THEN Welcomed(c, nick)
                                           ELSE welcomes
                            /\ UNCHANGED script
    /\ UNCHANGED <<conn, linein, clients, alive, nlines>>
    /\ OnlyServer

\* Server::notify for a USER line: user::Handler.
DispatchUser ==
    /\ HeadIs("USER")
    /\ Len(clientQ) < MaxClientQ
    /\ serverQ' = Tail(serverQ)
    /\ LET c == Head(serverQ).id
           m == Head(serverQ).msg
       IN  IF c \notin clients
           THEN UNCHANGED <<info, clientQ, welcomes, lastInvoke, script>>
           ELSE /\ lastInvoke' = Invoked(c, "USER")
                /\ IF UserFromMessage(m) # "ok"
                   THEN /\ clientQ' = send_response(clientQ, c, UserFromMessage(m))
                        /\ script' = Spoiled(c)
                        /\ UNCHANGED <<info, welcomes>>
                   ELSE IF UserRejected(info[c].status)
                   THEN /\ clientQ' = send_response(clientQ, c, "462")
                        /\ script' = Spoiled(c)
                        /\ UNCHANGED <<info, welcomes>>
                   ELSE LET s == UserStatus(info[c].status)
                        IN  /\ info' = [info EXCEPT ![c].user = Str(m.params[1]),
                                                    ![c].realname = Str(m.params[4]),
                                                    ![c].status = s.status]
                            /\ clientQ' = IF s.register
                                          THEN Welcome(clientQ, c, info[c].nick)
                                          ELSE clientQ
                            /\ welcomes' = IF s.register
                                           THEN Welcomed(c, info[c].nick)
                                           ELSE welcomes
                            /\ UNCHANGED script
    /\ UNCHANGED <<conn, linein, clients, nicks, alive, nlines>>
    /\ OnlyServer

\* cap::Handler::invoke: the status the subcommand leaves, whether the
\* client is to be registered, and the reply ("" for none).
CapInvoke(sub, status) ==
    CASE sub \in {"LS", "REQ"} ->
            [status |-> suspend_registration(status), register |-> FALSE,
             reply |-> IF sub = "LS" THEN "CAP LS" ELSE "CAP NAK"]
      [] sub = "LIST" ->
            [status |-> status, register |-> FALSE, reply |-> "CAP LIST"]
      [] sub = "END" ->
            [status |-> continue_registration(status).status,
             register |-> continue_registration(status).register,
             reply |-> ""]
      [] sub = "CLEAR" ->
            [status |-> status, register |-> FALSE, reply |-> "CAP ACK"]
      [] OTHER ->
            [status |-> status, register |-> FALSE, reply |-> ""]

\* Server::notify for a CAP line: cap::Handler.
DispatchCap ==
    /\ HeadIs("CAP")
    /\ Len(clientQ) < MaxClientQ
    /\ serverQ' = Tail(serverQ)
    /\ LET c == Head(serverQ).id
           m == Head(serverQ).msg
       IN  IF c \notin clients
           THEN UNCHANGED <<info, clientQ, welcomes, lastInvoke>>
           ELSE /\ lastInvoke' = Invoked(c, "CAP")
                /\ IF CapFromMessage(m) # "ok"
                   THEN /\ clientQ' = send_response(clientQ, c, CapFromMessage(m))
                        /\ UNCHANGED <<info, welcomes>>
                   ELSE LET r == CapInvoke(Str(m.params[1]), info[c].status)
                        IN  /\ info' = [info EXCEPT ![c].status = r.status]
                            /\ clientQ' =
                                 IF r.register THEN Welcome(clientQ, c, info[c].nick)
                                 ELSE IF r.reply # ""
                                 THEN send_response(clientQ, c, r.reply)
                                 ELSE clientQ
                            /\ welcomes' = IF r.register
                                           THEN Welcomed(c, info[c].nick)
                                           ELSE welcomes
    /\ UNCHANGED <<conn, linein, clients, nicks, alive, nlines, script>>
    /\ OnlyServer

(***************************************************************************)
(* Channels: the handlers that post to a channel, and the channel actor    *)
(***************************************************************************)

\* The channel names of the model, and the lines the clients send in all
\* once they are registered.
Chans == {"#c"}
MaxChanLines == 3

\* The size of CommaSeparated::parameters.
MaxTargets == 10

\* Option<T>
None == <<>>
Some(x) == <<x>>

\* user limits a MODE of the model may name
Digits == [d \in {"0", "1", "2", "3"} |->
             CASE d = "0" -> 0 [] d = "1" -> 1 [] d = "2" -> 2 [] d = "3" -> 3]

\* String::parse::<usize> of a parameter given letter by letter.
RECURSIVE ParseUsize(_, _)
ParseUsize(param, acc) ==
    IF param = <<>> THEN Some(acc)
    ELSE IF Head(param) \notin DOMAIN Digits THEN None
    ELSE ParseUsize(Tail(param), 10 * acc + Digits[Head(param)])
parse(param) == IF param = <<>> THEN None ELSE ParseUsize(param, 0)

\* Channel::new
NewChannel(name) ==
    [name |-> name, topic |-> "", password |-> None, flags |-> {},
     limit |-> None, members |-> {}, invite_list |-> {}, nicknames |-> {}]

\* Member::new: the client's nickname is read when the handler builds the
\* member, in the dispatcher.
NewMember(c) == [id |-> c, nick |-> info[c].nick, flags |-> {}]

\* Member::promote
promote(member, flag) == [member EXCEPT !.flags = @ \cup {flag}]
\* Member::demote
demote(member, flag) == [member EXCEPT !.flags = @ \ {flag}]
\* An operator test that every member passes.
is_op_always(member) == TRUE

\* Member::is_op
is_op(member) == "OperatorPrivilege" \in member.flags

\* Channel::member_count
member_count(channel) == Cardinality(channel.members)

\* Channel::member_with_id: the members found through the index (at most
\* one).
member_with_id(channel, id) ==
    {m \in channel.members :
        \E e \in channel.nicknames : e[1] = id /\ e[2] = m.nick}

\* Channel::member_with_nick
member_with_nick(channel, nick) == {m \in channel.members : m.nick = nick}

\* HashMap::insert on the two maps of a Channel.
InsertNickname(index, id, nick) ==
    {e \in index : e[1] # id} \cup {<<id, nick>>}
InsertMember(members, member) ==
    {m \in members : m.nick # member.nick} \cup {member}

\* Channel::add_member
add_member(channel, member) ==
    IF member_with_id(channel, member.id) # {} THEN channel
    ELSE [channel EXCEPT
            !.nicknames = InsertNickname(@, member.id, member.nick),
            !.members = InsertMember(@, member)]

\* Channel::remove_member
remove_member(channel, id) ==
    IF \A e \in channel.nicknames : e[1] # id THEN channel
    ELSE LET nick == (CHOOSE e \in channel.nicknames : e[1] = id)[2]
         IN  [channel EXCEPT
                !.nicknames = {e \in @ : e[1] # id},
                !.members = {m \in @ : m.nick # nick}]

\* The members in the order an iteration over the map visits them (the
\* order of ids stands for it).
RECURSIVE MemberSeq(_)
MemberSeq(members) ==
    IF members = {} THEN <<>>
    ELSE LET m == CHOOSE x \in members : \A y \in members : x.id <= y.id
         IN  <<m>> \o MemberSeq(members \ {m})

\* client_io::Event::SharedMessage and Event::Disconnect
Shared(c, cmd, from) ==
    [type |-> "SharedMessage", id |-> c, code |-> cmd, nick |-> from]
Disconnect(c) == [type |-> "Disconnect", id |-> c, code |-> "", nick |-> ""]

\* Channel::broadcast_raw: one event for each member.
broadcast_raw(channel, cmd, from) ==
    [k \in 1..Cardinality(channel.members) |->
        Shared(MemberSeq(channel.members)[k].id, cmd, from)]

\* Channel::list_sender and prefixed_list_sender
list_sender(c, list_code, end_code) ==
    [receiver |-> c, list_code |-> list_code, end_code |-> end_code]

\* ListSender::feed_item and feed_items, called once for each of `members`:
\* one reply with the list code for each.
feed_items(sender, members) ==
    [k \in 1..Cardinality(members) |->
        Reply(sender.receiver, sender.list_code, info[sender.receiver].nick)]

\* A drop that sends nothing.
ListSender_drop_silent(sender, lines) == lines

\* Drop for ListSender: the reply with the end code follows what the
\* sender has sent.
ListSender_drop(sender, lines) ==
    Append(lines, Reply(sender.receiver, sender.end_code,
                       info[sender.receiver].nick))

\* Channel::send_names: no sender is built for an outsider of a secret
\* channel; otherwise every member is fed and the sender dropped at the end
\* of the function.
send_names(channel, c) ==
    IF "Secret" \in channel.flags /\ member_with_id(channel, c) = {}
    THEN <<>>
    ELSE LET sender == list_sender(c, "353", "366")
         IN  ListSender_drop(sender, feed_items(sender, channel.members))

\* who::handle_who: the sender is built first; it is dropped at once for an
\* outsider of a private or secret channel, and at the end of the function
\* after the members (the operators when op_only) have been fed.
handle_who(channel, c, op_only) ==
    LET sender == list_sender(c, "352", "315")
    IN  IF /\ channel.flags \cap {"Private", "Secret"} # {}
           /\ member_with_id(channel, c) = {}
        THEN ListSender_drop(sender, <<>>)
        ELSE ListSender_drop(sender,
                 feed_items(sender, {m \in channel.members :
                                        ~op_only \/ is_op(m)}))

\* A test that lets every joining member pass for the first.
AnyMember(channel) == TRUE

\* The test of handle_join that gives the first member its privileges.
FirstMember(channel) == member_count(channel) = 0

\* handle_join: the channel afterwards and the events sent.
handle_join(channel, member0, password) ==
    LET c == member0.id
        r(code) == <<Reply(c, code, info[c].nick)>>
    IN  IF channel.password # None /\ password # channel.password
        THEN [channel |-> channel, out |-> r("475")]
        ELSE IF member_with_id(channel, c) # {}
        THEN [channel |-> channel, out |-> <<>>]
        ELSE IF "InviteOnly" \in channel.flags /\ c \notin channel.invite_list
        THEN [channel |-> channel, out |-> r("473")]
        ELSE IF /\ "UserLimit" \in channel.flags
                /\ channel.limit # None
                /\ member_count(channel) + 1 >= channel.limit[1]
        THEN [channel |-> channel, out |-> r("471")]
        ELSE LET member == IF FirstMember(channel)
                           THEN promote(promote(member0, "ChannelCreator"),
                                        "OperatorPrivilege")
                           ELSE member0
                 ch1 == add_member([channel EXCEPT !.invite_list = @ \ {c}],
                                   member)
             IN  [channel |-> ch1,
                  out |-> broadcast_raw(ch1, "JOIN", member.nick)
                          \o r(IF ch1.topic = "" THEN "331" ELSE "332")
                          \o send_names(ch1, c)]

\* The closure PART posts.
handle_part(channel, c) ==
    IF member_with_id(channel, c) # {}
    THEN [channel |-> remove_member(channel, c),
          out |-> broadcast_raw(channel, "PART", info[c].nick)]
    ELSE [channel |-> channel, out |-> <<Reply(c, "442", info[c].nick)>>]

\* The closure QUIT posts.
handle_quit(channel, c, nick) ==
    IF member_with_id(channel, c) # {}
    THEN [channel |-> remove_member(channel, c),
          out |-> broadcast_raw(channel, "QUIT", nick)]
    ELSE [channel |-> channel, out |-> <<>>]

\* ChannelMode::from_u8 for the letters of the enumeration.
ModeOf ==
    [l \in {"O", "o", "v", "a", "i", "m", "n", "q", "p", "s", "r", "t", "k", "l",
            "b", "e", "I"} |->
        CASE l = "O" -> "ChannelCreator"
          [] l = "o" -> "OperatorPrivilege"
          [] l = "v" -> "VoicePrivilege"
          [] l = "a" -> "AnonChannel"
          [] l = "i" -> "InviteOnly"
          [] l = "m" -> "Moderated"
          [] l = "n" -> "MemberOnly"
          [] l = "q" -> "Quiet"
          [] l = "p" -> "Private"
          [] l = "s" -> "Secret"
          [] l = "r" -> "ReOpFlag"
          [] l = "t" -> "TopicProtect"
          [] l = "k" -> "ChannelKey"
          [] l = "l" -> "UserLimit"
          [] l = "b" -> "BanMask"
          [] l = "e" -> "ExceptionMask"
          [] l = "I" -> "InvitationMask"]

\* has_parameter with the member privileges forgotten.
has_parameter_flags(mode) ==
    mode \in {"ChannelKey", "UserLimit", "BanMask", "ExceptionMask",
              "InvitationMask"}

\* ChannelMode::has_parameter
has_parameter(mode) ==
    mode \in {"ChannelKey", "UserLimit", "BanMask", "ExceptionMask",
              "InvitationMask", "OperatorPrivilege", "VoicePrivilege"}

\* The inner loop of modes_do over the letters of one parameter; rest is
\* what the parameter iterator still holds.
RECURSIVE ModeLetters(_, _, _, _)
ModeLetters(letters, action, rest, acc) ==
    IF letters = <<>> THEN [rest |-> rest, triples |-> acc]
    ELSE IF Head(letters) \notin DOMAIN ModeOf
    THEN ModeLetters(Tail(letters), action, rest, acc)
    ELSE LET mode == ModeOf[Head(letters)]
             takes == has_parameter(mode) /\ action # "Show"
             param == IF takes /\ rest # <<>> THEN Some(Head(rest)) ELSE None
             rest1 == IF takes /\ rest # <<>> THEN Tail(rest) ELSE rest
         IN  ModeLetters(Tail(letters), action, rest1,
                         Append(acc, [action |-> action, mode |-> mode,
                                      parameter |-> param]))

\* modes_do: the triples handed to the block, and whether indexing the
\* first letter of a parameter panicked.
RECURSIVE modes_do(_, _)
modes_do(params, acc) ==
    IF params = <<>> THEN [panic |-> FALSE, triples |-> acc]
    ELSE LET current == Head(params) IN
         IF current = <<>> THEN [panic |-> TRUE, triples |-> acc]
         ELSE LET action == CASE current[1] = "+" -> "Add"
                              [] current[1] = "-" -> "Remove"
                              [] OTHER -> "Show"
                  offset == IF action = "Show" THEN 0 ELSE 1
                  r == ModeLetters(SubSeq(current, offset + 1, Len(current)),
                                   action, Tail(params), acc)
              IN  modes_do(r.rest, r.triples)

\* The block handle_mode hands to modes_do: one triple applied to the
\* channel, with the events it sends.
FlagModes ==
    {"AnonChannel", "InviteOnly", "Moderated", "MemberOnly", "Quiet",
     "Private", "Secret", "ReOpFlag", "TopicProtect"}

ApplyMode(channel, c, t) ==
    LET bc(ch) == broadcast_raw(ch, "MODE", info[c].nick)
        same == [channel |-> channel, out |-> <<>>]
    IN  CASE t.mode \in FlagModes ->
               IF t.action = "Add"
               THEN LET ch == [channel EXCEPT !.flags = @ \cup {t.mode}]
                    IN  [channel |-> ch, out |-> bc(ch)]
               ELSE IF t.action = "Remove"
               THEN LET ch == [channel EXCEPT !.flags = @ \ {t.mode}]
                    IN  [channel |-> ch, out |-> bc(ch)]
               ELSE same
          [] t.mode \in {"OperatorPrivilege", "VoicePrivilege"} ->
               IF t.parameter = None
                  \/ member_with_nick(channel, Str(t.parameter[1])) = {}
                  \/ t.action = "Show"
               THEN same
               ELSE LET old == CHOOSE m \in channel.members :
                                   m.nick = Str(t.parameter[1])
                        new == IF t.action = "Add" THEN promote(old, t.mode)
                               ELSE demote(old, t.mode)
                        ch == [channel EXCEPT
                                 !.members = (@ \ {old}) \cup {new}]
                    IN  [channel |-> ch, out |-> bc(ch)]
          [] t.mode = "ChannelKey" ->
               IF t.action = "Add" /\ t.parameter # None
               THEN [channel |-> [channel EXCEPT !.password = t.parameter],
                     out |-> bc(channel)]
               ELSE IF t.action = "Remove"
               THEN [channel |-> [channel EXCEPT !.password = None],
                     out |-> bc(channel)]
               ELSE same
          [] t.mode = "UserLimit" ->
               IF t.action = "Add"
               THEN IF t.parameter # None /\ parse(t.parameter[1]) # None
                    THEN [channel |-> [channel EXCEPT
                                         !.limit = parse(t.parameter[1])],
                          out |-> bc(channel)]
                    ELSE same
               ELSE IF t.action = "Remove"
               THEN [channel |-> [channel EXCEPT !.limit = None],
                     out |-> bc(channel)]
               ELSE same
          [] OTHER -> same

RECURSIVE ApplyModes(_, _, _, _)
ApplyModes(channel, c, triples, out) ==
    IF triples = <<>> THEN [channel |-> channel, out |-> out]
    ELSE LET r == ApplyMode(channel, c, Head(triples))
         IN  ApplyModes(r.channel, c, Tail(triples), out \o r.out)

\* handle_mode: the channel afterwards, the events sent, and whether the
\* thread panicked.
handle_mode(channel, c, params) ==
    LET member == member_with_id(channel, c)
        op == member # {} /\ is_op(CHOOSE m \in member : TRUE)
    IN  IF Len(params) > 1
        THEN IF ~op
             THEN [channel |-> channel, panic |-> FALSE,
                   out |-> <<Reply(c, "482", info[c].nick)>>]
             ELSE LET d == modes_do(Tail(params), <<>>)
                      r == ApplyModes(channel, c, d.triples, <<>>)
                  IN  [channel |-> r.channel, panic |-> d.panic, out |-> r.out]
        ELSE [channel |-> channel, panic |-> FALSE,
              out |-> <<Reply(c, "324", info[c].nick)>>]

\* The comma-separated items of the model: byte length, and whether
\* misc::valid_channel accepts the item.
ItemLen ==
    [n \in {"#c", "#d", "#elevenchar", "k", "long-secret"} |->
        CASE n = "#elevenchar" -> 11
          [] n = "long-secret" -> 11
          [] n = "k" -> 1
          [] OTHER -> 2]
valid_channel(name) == name \in {"#c", "#d", "#elevenchar"}

\* The loop of CommaSeparated::verify_on_error over the items; i counts the
\* slots of `parameters` filled so far.  `chk` tells the verify function:
\* "channel" for misc::verify_channel, "any" for one that accepts all.
RECURSIVE VerifyItems(_, _, _, _, _)
VerifyItems(items, i, valid, chk, on_error) ==
    IF items = <<>> THEN [res |-> "ok", valid |-> valid]
    ELSE IF ItemLen[Head(items)] > MaxTargets /\ on_error = "Fail"
    THEN [res |-> "TooMany", valid |-> valid]
    ELSE IF chk = "any" \/ valid_channel(Head(items))
    THEN IF i >= MaxTargets
         THEN [res |-> "panic", valid |-> valid]
         ELSE VerifyItems(Tail(items), i + 1, Append(valid, Head(items)),
                          chk, on_error)
    ELSE IF on_error = "Fail"
    THEN [res |-> "Malformed", valid |-> valid]
    ELSE VerifyItems(Tail(items), i, valid, chk, on_error)

\* CommaSeparated::verify_on_error
verify_on_error(chk, params, index, on_error) ==
    IF Len(params) <= index THEN [res |-> "Missing", valid |-> <<>>]
    ELSE VerifyItems(params[index + 1], 0, <<>>, chk, on_error)

\* CommaSeparated::verify
verify(chk, params, index) == verify_on_error(chk, params, index, "Fail")

\* CommaSeparated::verify_no_error: the result is unwrapped.
verify_no_error(chk, params, index) ==
    LET v == verify_on_error(chk, params, index, "Skip")
    IN  IF v.res = "ok" THEN v ELSE [res |-> "panic", valid |-> <<>>]

\* The loop of join::Handler::invoke over the two iterators: the channel
\* and the password of each join, in order.
RECURSIVE JoinPairs(_, _)
JoinPairs(names, keys) ==
    IF names = <<>> THEN <<>>
    ELSE <<[channel |-> Head(names),
            password |-> IF keys = <<>> THEN None ELSE Some(Head(keys))]>>
             \o JoinPairs(Tail(names), IF keys = <<>> THEN keys ELSE Tail(keys))

\* join::Handler::from_message and the loop of invoke: the result of the
\* verification and the joins attempted.
join_Handler(params) ==
    LET v == verify("channel", params, 0)
        pw == verify("any", params, 1)
    IN  IF v.res = "panic" \/ (v.res = "ok" /\ pw.res = "panic")
        THEN [res |-> "panic", joins |-> <<>>]
        ELSE IF v.res # "ok" THEN [res |-> v.res, joins |-> <<>>]
        ELSE [res |-> "ok",
              joins |-> JoinPairs(v.valid,
                                  IF pw.res = "ok" THEN pw.valid ELSE <<>>)]

\* The channel variables as one value, for the handlers that post more
\* than once.
ChanState ==
    [channels |-> channels, chanQ |-> chanQ, chan |-> chan,
     actorAlive |-> actorAlive, posted |-> posted]

\* An operation sent through a Proxy.
Op(kind, handle, c, nick, arg) ==
    [sn |-> 0, kind |-> kind, handle |-> handle, id |-> c, nick |-> nick,
     arg |-> arg]

\* Proxy::with_ref / with_ref_mut: tx.send, which fails when the actor is
\* gone; no handler looks at the result.  sn numbers the operations sent to
\* one channel.
Post(st, ch, op) ==
    IF ~st.actorAlive[ch] THEN st
    ELSE LET e == [op EXCEPT !.sn = Len(st.posted[ch]) + 1]
         IN  [st EXCEPT !.chanQ[ch] = Append(@, e),
                        !.posted[ch] = Append(@, e)]

\* The registry entry of JOIN: the Proxy found, or a new channel whose
\* actor is started.
Entry(st, ch) ==
    IF ch \in st.channels THEN st
    ELSE [st EXCEPT !.channels = @ \cup {ch},
                    !.chan[ch] = [NewChannel(ch) EXCEPT
                                    !.flags = {"TopicProtect", "MemberOnly"}],
                    !.chanQ[ch] = <<>>,
                    !.actorAlive[ch] = TRUE,
                    !.posted[ch] = <<>>]

\* join::Handler::invoke: one join posted for each channel named.
RECURSIVE JoinAll(_, _, _, _)
JoinAll(names, keys, st, c) ==
    IF names = <<>> THEN st
    ELSE LET password == IF keys = <<>> THEN None ELSE Some(Word(Head(keys)))
             op == Op("join", "HandleMut", c, info[c].nick, password)
         IN  JoinAll(Tail(names), IF keys = <<>> THEN keys ELSE Tail(keys),
                     Post(Entry(st, Head(names)), Head(names), op), c)

\* part::Handler::invoke
RECURSIVE PartAll(_, _, _, _)
PartAll(names, st, c, out) ==
    IF names = <<>> THEN [st |-> st, out |-> out]
    ELSE IF Head(names) \in st.channels
    THEN PartAll(Tail(names),
                 Post(st, Head(names),
                      Op("part", "HandleMut", c, info[c].nick, <<>>)),
                 c, out)
    ELSE PartAll(Tail(names), st, c,
                 Append(out, Reply(c, "403", info[c].nick)))

\* names::Handler::invoke
RECURSIVE NamesAll(_, _, _)
NamesAll(names, st, c) ==
    IF names = <<>> THEN st
    ELSE NamesAll(Tail(names),
                  IF Head(names) \in st.channels
                  THEN Post(st, Head(names),
                            Op("names", "Handle", c, info[c].nick, <<>>))
                  ELSE st,
                  c)

\* quit::Handler::invoke: the removal is posted to every channel of the
\* registry.
RECURSIVE QuitAll(_, _, _)
QuitAll(todo, st, c) ==
    IF todo = {} THEN st
    ELSE LET ch == CHOOSE x \in todo : TRUE
         IN  QuitAll(todo \ {ch},
                     Post(st, ch, Op("quit", "HandleMut", c, info[c].nick, <<>>)),
                     c)

\* The channel variables take the values of st.
SetChanState(st) ==
    /\ channels' = st.channels
    /\ chanQ' = st.chanQ
    /\ chan' = st.chan
    /\ actorAlive' = st.actorAlive
    /\ posted' = st.posted
    /\ executed' = [ch \in Chans |->
                      IF ch \in st.channels \ channels THEN <<>>
                      ELSE executed[ch]]

\* What every handler call leaves alone.
DispatchFrame ==
    /\ UNCHANGED <<conn, info, linein, clients, nicks, nlines, welcomes, script>>
    /\ NoIO

\* The handler call panics: the dispatcher thread is gone.
DispatcherPanics(c, cmd) ==
    /\ alive' = FALSE
    /\ lastInvoke' = Invoked(c, cmd)
    /\ UNCHANGED <<clientQ, cvars>>

\* The event is for a client that is not in the registry: it is dropped.
Dropped == UNCHANGED <<alive, lastInvoke, clientQ, cvars>>

\* Server::notify for a JOIN line: join::Handler.
DispatchJoin ==
    /\ HeadIs("JOIN")
    /\ Len(clientQ) < MaxClientQ
    /\ serverQ' = Tail(serverQ)
    /\ DispatchFrame
    /\ LET c == Head(serverQ).id
           m == Head(serverQ).msg
           v == verify("channel", m.params, 0)
           pw == verify("any", m.params, 1)
       IN  IF c \notin clients THEN Dropped
           ELSE IF v.res = "panic" \/ (v.res = "ok" /\ pw.res = "panic")
           THEN DispatcherPanics(c, "JOIN")
           ELSE /\ lastInvoke' = Invoked(c, "JOIN")
                /\ UNCHANGED alive
                /\ IF v.res # "ok"
                   THEN /\ clientQ' = send_response(clientQ, c,
                               IF v.res = "TooMany" THEN "407" ELSE "461")
                        /\ UNCHANGED cvars
                   ELSE /\ SetChanState(JoinAll(v.valid,
                               IF pw.res = "ok" THEN pw.valid ELSE <<>>,
                               ChanState, c))
                        /\ UNCHANGED clientQ

\* Server::notify for a PART line: part::Handler.
DispatchPart ==
    /\ HeadIs("PART")
    /\ Len(clientQ) < MaxClientQ
    /\ serverQ' = Tail(serverQ)
    /\ DispatchFrame
    /\ LET c == Head(serverQ).id
           m == Head(serverQ).msg
           v == verify_no_error("channel", m.params, 0)
       IN  IF c \notin clients THEN Dropped
           ELSE IF v.res = "panic" THEN DispatcherPanics(c, "PART")
           ELSE /\ lastInvoke' = Invoked(c, "PART")
                /\ UNCHANGED alive
                /\ IF Len(v.valid) = 0
                   THEN /\ clientQ' = send_response(clientQ, c, "461")
                        /\ UNCHANGED cvars
                   ELSE LET r == PartAll(v.valid, ChanState, c, <<>>)
                        IN  /\ SetChanState(r.st)
                            /\ clientQ' = clientQ \o r.out

\* Server::notify for a NAMES line: names::Handler.
DispatchNames ==
    /\ HeadIs("NAMES")
    /\ serverQ' = Tail(serverQ)
    /\ DispatchFrame
    /\ LET c == Head(serverQ).id
           m == Head(serverQ).msg
           v == verify_no_error("channel", m.params, 0)
       IN  IF c \notin clients THEN Dropped
           ELSE IF v.res = "panic" THEN DispatcherPanics(c, "NAMES")
           ELSE /\ lastInvoke' = Invoked(c, "NAMES")
                /\ SetChanState(NamesAll(v.valid, ChanState, c))
                /\ UNCHANGED <<alive, clientQ>>

\* Server::notify for a MODE line: mode::Handler.
DispatchMode ==
    /\ HeadIs("MODE")
    /\ Len(clientQ) < MaxClientQ
    /\ serverQ' = Tail(serverQ)
    /\ DispatchFrame
    /\ LET c == Head(serverQ).id
           m == Head(serverQ).msg
       IN  IF c \notin clients THEN Dropped
           ELSE /\ lastInvoke' = Invoked(c, "MODE")
                /\ UNCHANGED alive
                /\ IF Len(m.params) = 0
                   THEN /\ clientQ' = send_response(clientQ, c, "461")
                        /\ UNCHANGED cvars
                   ELSE IF ~valid_channel(Str(m.params[1]))
                   THEN /\ clientQ' = send_response(clientQ, c, "403")
                        /\ UNCHANGED cvars
                   ELSE IF Str(m.params[1]) \notin channels
                   THEN /\ clientQ' = send_response(clientQ, c, "403")
                        /\ UNCHANGED cvars
                   ELSE /\ SetChanState(Post(ChanState, Str(m.params[1]),
                               Op("mode", "HandleMut", c, info[c].nick,
                                  m.params)))
                        /\ UNCHANGED clientQ

\* Server::notify for a QUIT line: quit::Handler.
DispatchQuit ==
    /\ HeadIs("QUIT")
    /\ Len(clientQ) < MaxClientQ
    /\ serverQ' = Tail(serverQ)
    /\ DispatchFrame
    /\ LET c == Head(serverQ).id
       IN  IF c \notin clients THEN Dropped
           ELSE /\ lastInvoke' = Invoked(c, "QUIT")
                /\ SetChanState(QuitAll(channels, ChanState, c))
                /\ clientQ' = Append(clientQ, Disconnect(c))
                /\ UNCHANGED alive

\* Server::channel_lost
channel_lost(st, name) == [st EXCEPT !.channels = @ \ {name}]

\* A voice test that operators do not pass.
has_voice_only(member) == "VoicePrivilege" \in member.flags

\* Member::has_voice
has_voice(member) ==
    "VoicePrivilege" \in member.flags \/ "OperatorPrivilege" \in member.flags

\* The closure PRIVMSG posts: the events sent.
handle_privmsg(channel, c, nick) ==
    LET sender == member_with_id(channel, c)
        others == MemberSeq(channel.members \ sender)
        to_others == [k \in 1..Len(others) |->
                        Shared(others[k].id, "PRIVMSG", nick)]
    IN  IF "MemberOnly" \in channel.flags \/ "Moderated" \in channel.flags
        THEN IF sender = {} THEN <<>>
             ELSE IF "Moderated" \in channel.flags
                     /\ \E m \in sender : ~has_voice(m)
             THEN <<>>
             ELSE to_others
        ELSE IF sender # {} THEN to_others
             ELSE broadcast_raw(channel, "PRIVMSG", nick)

\* misc::valid_nick on the receivers of the model: the nicknames of the
\* clients and one that nobody has.
valid_nick(name) == name \in Nicks \cup {"z"}

\* misc::verify_receiver
verify_receiver(recv) ==
    IF valid_channel(recv) THEN Some("Channel")
    ELSE IF valid_nick(recv) THEN Some("Nick")
    ELSE None

\* An is_notice that never holds.
is_notice_never(cmd) == FALSE

\* privmsg::Handler::is_notice
is_notice(cmd) == cmd = "NOTICE"

\* privmsg::Handler for a line with command cmd, PRIVMSG or NOTICE:
\* from_message with the error arm of message_handler::invoke, then
\* invoke.  Of all handlers this one looks at the result of the send to the
\* Proxy.
privmsg_Handler(cmd) ==
    /\ Len(clientQ) < MaxClientQ
    /\ serverQ' = Tail(serverQ)
    /\ DispatchFrame
    /\ LET c == Head(serverQ).id
           m == Head(serverQ).msg
           recv == Str(m.params[1])
           error(code) == IF is_notice(cmd) THEN clientQ
                          ELSE send_response(clientQ, c, code)
       IN  IF c \notin clients THEN Dropped
           ELSE /\ lastInvoke' = Invoked(c, cmd)
                /\ UNCHANGED alive
                /\ IF Len(m.params) = 0
                   THEN /\ clientQ' = error("411")
                        /\ UNCHANGED cvars
                   ELSE IF verify_receiver(recv) = None
                   THEN /\ clientQ' = error("401")
                        /\ UNCHANGED cvars
                   ELSE IF verify_receiver(recv) = Some("Channel")
                   THEN IF recv \notin channels
                        THEN /\ clientQ' = error("401")
                             /\ UNCHANGED cvars
                        ELSE /\ UNCHANGED clientQ
                             /\ IF actorAlive[recv]
                                THEN SetChanState(Post(ChanState, recv,
                                        Op("privmsg", "Handle", c,
                                           info[c].nick, <<>>)))
                                ELSE SetChanState(channel_lost(ChanState, recv))
                   ELSE /\ UNCHANGED cvars
                        /\ IF recv \in Nicks /\ nicks[recv] # 0
                           THEN clientQ' = Append(clientQ,
                                    Shared(nicks[recv], "PRIVMSG", info[c].nick))
                           ELSE clientQ' = error("401")

\* Server::notify for a PRIVMSG line.
DispatchPrivmsg ==
    /\ HeadIs("PRIVMSG")
    /\ privmsg_Handler("PRIVMSG")

\* Server::notify for a NOTICE line.
DispatchNotice ==
    /\ HeadIs("NOTICE")
    /\ privmsg_Handler("NOTICE")

\* Server::notify for Disconnected.
DispatchDisconnected ==
    /\ alive
    /\ serverQ # <<>>
    /\ Head(serverQ).type = "Disconnected"
    /\ serverQ' = Tail(serverQ)
    /\ LET c == Head(serverQ).id
       IN  /\ clients' = clients \ {c}
           /\ nicks' = [n \in Nicks |->
                          IF n = info[c].nick THEN 0 ELSE nicks[n]]
    /\ UNCHANGED <<conn, info, linein, clientQ, alive, nlines, welcomes,
                   lastInvoke, script>>
    /\ OnlyServer

\* Worker::notify for Disconnect: unregister_connection.
WorkerDisconnect ==
    /\ clientQ # <<>>
    /\ Head(clientQ).type = "Disconnect"
    /\ clientQ' = Tail(clientQ)
    /\ LET c == Head(clientQ).id
       IN  IF c \notin conn
           THEN UNCHANGED <<conn, linein, serverQ>>
           ELSE /\ conn' = conn \ {c}
                /\ linein' = [linein EXCEPT ![c] = <<>>]
                /\ serverQ' = Append(serverQ, Disconnected(c))
    /\ UNCHANGED <<info, clients, nicks, alive, nlines, welcomes, lastInvoke,
                   script>>
    /\ OnlyServer

\* A receiver that hands out the event sent last.
RecvLast(q) == [event |-> q[Len(q)], rest |-> SubSeq(q, 1, Len(q) - 1)]

\* The actor's loop takes the next event from its receiver.
Recv(q) == [event |-> Head(q), rest |-> Tail(q)]

\* The actor of channel ch is about to run an operation of this kind.
ActorAt(ch, kind) ==
    /\ ch \in channels
    /\ actorAlive[ch]
    /\ chanQ[ch] # <<>>
    /\ Recv(chanQ[ch]).event.kind = kind
    /\ Len(clientQ) < MaxClientQ

\* Channel::dispatch has run the operation: r is the channel afterwards and
\* the events sent.
ActorDone(ch, r) ==
    /\ chan' = [chan EXCEPT ![ch] = r.channel]
    /\ clientQ' = clientQ \o r.out
    /\ chanQ' = [chanQ EXCEPT ![ch] = Recv(@).rest]
    /\ executed' = [executed EXCEPT ![ch] = Append(@, Recv(chanQ[ch]).event)]
    /\ UNCHANGED <<channels, actorAlive, posted>>
    /\ UNCHANGED <<conn, info, linein, serverQ, clients, nicks, alive, nlines,
                   welcomes, lastInvoke, script>>
    /\ NoIO

\* Channel::dispatch for the closure of JOIN.
ExecJoin(ch) ==
    /\ ActorAt(ch, "join")
    /\ LET op == Recv(chanQ[ch]).event
       IN  ActorDone(ch, handle_join(chan[ch],
                [id |-> op.id, nick |-> op.nick, flags |-> {}], op.arg))

\* Channel::dispatch for the closure of PART.
ExecPart(ch) ==
    /\ ActorAt(ch, "part")
    /\ ActorDone(ch, handle_part(chan[ch], Recv(chanQ[ch]).event.id))

\* Channel::dispatch for the closure of QUIT.
ExecQuit(ch) ==
    /\ ActorAt(ch, "quit")
    /\ LET op == Recv(chanQ[ch]).event
       IN  ActorDone(ch, handle_quit(chan[ch], op.id, op.nick))

\* Channel::dispatch for the closure of NAMES.
ExecNames(ch) ==
    /\ ActorAt(ch, "names")
    /\ ActorDone(ch, [channel |-> chan[ch],
                      out |-> send_names(chan[ch], Recv(chanQ[ch]).event.id)])

\* Channel::dispatch for the closure of MODE.  When modes_do panics the
\* thread ends and its receiver is dropped with what it still holds.
ExecMode(ch) ==
    /\ ActorAt(ch, "mode")
    /\ LET op == Recv(chanQ[ch]).event
           r == handle_mode(chan[ch], op.id, op.arg)
       IN  IF ~r.panic THEN ActorDone(ch, r)
           ELSE /\ actorAlive' = [actorAlive EXCEPT ![ch] = FALSE]
                /\ chanQ' = [chanQ EXCEPT ![ch] = <<>>]
                /\ clientQ' = clientQ \o r.out
                /\ executed' = [executed EXCEPT ![ch] = Append(@, op)]
                /\ UNCHANGED <<channels, chan, posted>>
                /\ UNCHANGED <<conn, info, linein, serverQ, clients, nicks,
                               alive, nlines, welcomes, lastInvoke, script>>
                /\ NoIO

\* Channel::dispatch for the closure of PRIVMSG.
ExecPrivmsg(ch) ==
    /\ ActorAt(ch, "privmsg")
    /\ LET op == Recv(chanQ[ch]).event
       IN  ActorDone(ch, [channel |-> chan[ch],
                          out |-> handle_privmsg(chan[ch], op.id, op.nick)])

\* Server::new: no channel.
InitChannels ==
    /\ channels = {}
    /\ chanQ = [ch \in Chans |-> <<>>]
    /\ chan = [ch \in Chans |-> NewChannel(ch)]
    /\ actorAlive = [ch \in Chans |-> TRUE]
    /\ posted = [ch \in Chans |-> <<>>]
    /\ executed = [ch \in Chans |-> <<>>]

\* The nickname each client of the channel specification registered with,
\* and the clients that have one.
NickOf == [c \in Clients |-> IF c = 1 THEN "a" ELSE IF c = 2 THEN "b" ELSE "*"]
Registrants == {c \in Clients : NickOf[c] \in Nicks}

\* The state in which every client has connected and registered, each with
\* a nickname of its own, and everything sent so far has been handled.
InitRegistered ==
    /\ conn = Registrants
    /\ info = [c \in Clients |->
                 IF c \in Registrants
                 THEN [nick |-> NickOf[c], user |-> "u", realname |-> "r",
                       status |-> "Registered"]
                 ELSE NewUser]
    /\ linein = [c \in Clients |-> <<>>]
    /\ serverQ = <<>>
    /\ clientQ = <<>>
    /\ clients = Registrants
    /\ nicks = [n \in Nicks |->
                  IF \E c \in Registrants : NickOf[c] = n
                  THEN CHOOSE c \in Registrants : NickOf[c] = n ELSE 0]
    /\ alive = TRUE
    /\ nlines = 0
    /\ welcomes = [c \in Clients |->
                     IF c \in Registrants THEN [n |-> 1, nick |-> NickOf[c]]
                     ELSE [n |-> 0, nick |-> "*"]]
    /\ lastInvoke = [cmd |-> "USER", id |-> 1, status |-> "NickRegistered",
                     arg |-> ""]
    /\ script = [c \in Clients |-> [ok |-> TRUE, nick |-> c \in Registrants,
                                     user |-> c \in Registrants, cap |-> FALSE]]

\* A JOIN that names one channel more than `parameters` has slots.
TooManyNames == [k \in 1..(MaxTargets + 1) |-> "#c"]

\* The lines a registered client may send.
ChanMenu ==
    {Msg("JOIN", <<Word("#c")>>), Msg("JOIN", <<TooManyNames>>),
     Msg("PART", <<Word("#c")>>), Msg("PART", <<>>),
     Msg("NAMES", <<Word("#c")>>), Msg("NAMES", <<>>),
     Msg("MODE", <<Word("#c")>>), Msg("MODE", <<Word("#c"), <<>>>>),
     Msg("MODE", <<Word("#c"), <<"+", "i">>>>),
     Msg("MODE", <<Word("#c"), <<"+", "l">>, <<"1">>>>),
     Msg("PRIVMSG", <<Word("#c"), Word("hi")>>),
     Msg("QUIT", <<>>)}

SendChan == \E c \in Registrants, m \in ChanMenu : ClientSend(c, m, MaxChanLines)

NextChan ==
    \/ SendChan
    \/ \E c \in Clients : WorkerRead(c)
    \/ WorkerNotify
    \/ WorkerDisconnect
    \/ DispatchDisconnected
    \/ DispatchJoin
    \/ DispatchPart
    \/ DispatchNames
    \/ DispatchMode
    \/ DispatchQuit
    \/ DispatchPrivmsg
    \/ \E ch \in Chans : ExecPrivmsg(ch)
    \/ \E ch \in Chans : ExecJoin(ch)
    \/ \E ch \in Chans : ExecPart(ch)
    \/ \E ch \in Chans : ExecQuit(ch)
    \/ \E ch \in Chans : ExecNames(ch)
    \/ \E ch \in Chans : ExecMode(ch)

\* mio::EventSet: the readiness bits one call of Worker::ready may carry.
EventBits == {"readable", "writable", "hup", "error"}

\* Worker::new: nothing has been reported yet.
InitEvents == hup = [c \in Clients |-> FALSE] /\ reported = {}

\* Worker::ready: the handler the event set is given to.
ReadyCalls(events) ==
    IF "writable" \in events THEN "writable"
    ELSE IF "readable" \in events THEN "readable"
    ELSE "none"

\* The line Worker::readable builds on the client's behalf.
HungUp == Msg("QUIT", <<Word("Client hung up")>>)

\* Worker::ready for an event set that carries hup or error (the
\* registration is edge-triggered: it is reported once).  Worker::readable
\* forwards a QUIT; Worker::writable finds what the write path left.
ReadyHangup(c, events) ==
    /\ c \in conn
    /\ ~hup[c]
    /\ events \cap {"hup", "error"} # {}
    /\ Len(serverQ) < MaxServerQ
    /\ hup' = [hup EXCEPT ![c] = TRUE]
    /\ UNCHANGED reported
    /\ serverQ' = IF ReadyCalls(events) = "readable"
                  THEN Append(serverQ, InboundMessage(c, HungUp))
                  ELSE serverQ
    /\ UNCHANGED <<conn, info, linein, clientQ, clients, nicks, alive, nlines,
                   welcomes, lastInvoke, script>>
    /\ UNCHANGED <<fvars, wvars, cvars, ivars, pvars, lvars>>

\* The peer writes one more byte.  The registration is edge-triggered
\* (PollOpt::edge): the arrival raises the readable bit once, however many
\* bytes are pending, and the poller reports it together with the writable
\* bit when the socket can take output at that moment.
PeerWrites ==
    /\ Len(sent) < MaxStream
    /\ \E b \in {CR, LF} \cup {CHOOSE l \in Letters : TRUE},
          w \in SUBSET {"writable"} :
         /\ sock' = Append(sock, b)
         /\ sent' = Append(sent, b)
         /\ reported' = reported \cup {"readable"} \cup w
    /\ UNCHANGED <<reader, yields, peak, hup>>
    /\ UNCHANGED <<wvars, svars, cvars, ivars, pvars, lvars>>

\* Worker::ready for the event set the poller holds: Worker::writable when
\* the set carries writable, else Worker::readable, which reads once into
\* the room of the ring and takes every item the reader yields.  Nothing is
\* reported again until the peer sends more.
WorkerReady ==
    /\ reported # {}
    /\ reported' = {}
    /\ IF ReadyCalls(reported) = "readable"
       THEN ReadBytes(Min(Len(sock), RingRoom(reader)))
       ELSE UNCHANGED fvars
    /\ UNCHANGED hup
    /\ UNCHANGED <<wvars, svars, cvars, ivars, pvars, lvars>>

NextReady == PeerWrites \/ WorkerReady

\* The poller hands over what it holds: the steps of WorkerReady, which is
\* the one action that empties `reported`.
EventTaken == reported # {} /\ reported' = {}

Hangup == \E c \in Clients, events \in SUBSET EventBits : ReadyHangup(c, events)

\* The lines of the clients whose connections are then torn down.
HupMenu ==
    {Msg("JOIN", <<Word("#c")>>), Msg("NAMES", <<Word("#c")>>),
     Msg("PART", <<Word("#c")>>)}

SendHup ==
    \E c \in Registrants, m \in HupMenu :
        ~hup[c] /\ ClientSend(c, m, MaxChanLines)

\* The steps of the Worker, the dispatcher and the channel actors.
Threads ==
    \/ \E c \in Clients : WorkerRead(c)
    \/ WorkerNotify
    \/ WorkerDisconnect
    \/ DispatchDisconnected
    \/ DispatchJoin
    \/ DispatchPart
    \/ DispatchNames
    \/ DispatchQuit
    \/ \E ch \in Chans : ExecJoin(ch)
    \/ \E ch \in Chans : ExecPart(ch)
    \/ \E ch \in Chans : ExecQuit(ch)
    \/ \E ch \in Chans : ExecNames(ch)

NextHup == Hangup \/ SendHup \/ Threads

\* The PRIVMSG and NOTICE lines of a registered client: without receiver,
\* to the channel, to a nickname nobody has, to a receiver that is neither,
\* to the other client; and the line that creates the channel.
MsgMenu ==
    {Msg(cmd, ps) : cmd \in {"PRIVMSG", "NOTICE"},
                    ps \in {<<>>, <<Word("#c"), Word("hi")>>,
                            <<Word("z"), Word("hi")>>,
                            <<Word("!"), Word("hi")>>,
                            <<Word("b"), Word("hi")>>}}
        \cup {Msg("JOIN", <<Word("#c")>>)}

SendMsg == \E c \in Registrants, m \in MsgMenu : ClientSend(c, m, MaxChanLines)

NextMsg ==
    \/ SendMsg
    \/ \E c \in Clients : WorkerRead(c)
    \/ WorkerNotify
    \/ DispatchJoin
    \/ DispatchPrivmsg
    \/ DispatchNotice
    \/ \E ch \in Chans : ExecJoin(ch)
    \/ \E ch \in Chans : ExecPrivmsg(ch)

\* The lines of clients that take and change nicknames and leave.
NickMenu == {Msg("NICK", <<Word(n)>>) : n \in Nicks} \cup {Msg("QUIT", <<>>)}

SendNick == \E c \in Clients, m \in NickMenu : ClientSend(c, m, MaxLines)

NextNick ==
    \/ \E c \in Clients : Connect(c)
    \/ SendNick
    \/ \E c \in Clients : WorkerRead(c)
    \/ WorkerNotify
    \/ WorkerDisconnect
    \/ DispatchConnected
    \/ DispatchNick
    \/ DispatchQuit
    \/ DispatchDisconnected

\* The lines of a client that registers and joins a channel at once.
FirstMenu ==
    {Msg("NICK", <<Word("a")>>),
     Msg("USER", <<Word("u"), Word("0"), Word("*"), Word("r")>>),
     Msg("JOIN", <<Word("#c")>>)}

SendFirst == \E m \in FirstMenu : ClientSend(1, m, MaxLines)

NextFirst ==
    \/ Connect(1)
    \/ SendFirst
    \/ WorkerRead(1)
    \/ WorkerNotify
    \/ DispatchConnected
    \/ DispatchNick
    \/ DispatchUser
    \/ DispatchJoin
    \/ \E ch \in Chans : ExecJoin(ch)

\* The lines of clients that leave, join and take a nickname.
RejoinMenu ==
    {Msg("QUIT", <<>>), Msg("JOIN", <<Word("#c")>>), Msg("PART", <<Word("#c")>>)}
        \cup {Msg("NICK", <<Word(n)>>) : n \in Nicks}

SendRejoin == \E c \in Registrants, m \in RejoinMenu : ClientSend(c, m, MaxLines)

NextRejoin ==
    \/ SendRejoin
    \/ \E c \in Clients : WorkerRead(c)
    \/ WorkerNotify
    \/ WorkerDisconnect
    \/ DispatchDisconnected
    \/ DispatchNick
    \/ DispatchJoin
    \/ DispatchPart
    \/ DispatchQuit
    \/ \E ch \in Chans : ExecJoin(ch)
    \/ \E ch \in Chans : ExecPart(ch)
    \/ \E ch \in Chans : ExecQuit(ch)

(***************************************************************************)
(* ClientId and the Worker's maps                                          *)
(***************************************************************************)

\* The connections accepted in one behaviour.
MaxAccepts == 3

\* IpAddr: an IPv4 address is its four bytes, an IPv6 address its eight
\* groups.
V4(a, b, c, d) == [v4 |-> TRUE, o |-> <<a, b, c, d>>]
V6(g) == [v4 |-> FALSE, o |-> g]
LocalAddrs == {V4(127, 0, 0, 1), V4(10, 0, 0, 1)}
PeerAddrs ==
    {V4(127, 0, 0, 1), V4(10, 0, 0, 2),
     V6(<<0, 0, 0, 0, 0, 0, 0, 1>>), V6(<<1, 0, 0, 0, 0, 0, 0, 1>>)}

\* The match on IpAddr in ClientId::new: a u32.
IpWord(ip) ==
    IF ip.v4
    THEN ip.o[1] * 16777216 + ip.o[2] * 65536 + ip.o[3] * 256 + ip.o[4]
    ELSE ip.o[7] * 65536 + ip.o[8]

\* ClientId::new: [local << 32 | peer, 42].  The first u64 is kept as its
\* two 32-bit halves.
ClientId_new(local, peer) == <<<<IpWord(local), IpWord(peer)>>, 42>>

\* Worker::new: no connection.
InitIds ==
    /\ socks = {}
    /\ streams = {}
    /\ accepted = 0

\* Worker::notify(NewConnection) -> register_connection for a socket with
\* these addresses.  HashMap::insert replaces the stream stored under the
\* same key; the replaced TcpStream is dropped, which closes it.
Accept(local, peer) ==
    /\ accepted < MaxAccepts
    /\ accepted' = accepted + 1
    /\ LET id == ClientId_new(local, peer)
           fd == accepted + 1
           old == {e \in streams : e[1] = id}
       IN  /\ streams' = (streams \ old) \cup {<<id, fd>>}
           /\ socks' = {s \in socks : \A e \in old : s.fd # e[2]}
                       \cup {[fd |-> fd, local |-> local, peer |-> peer,
                              id |-> id]}
    /\ OnlyIds

\* Worker::notify(Disconnect(id)) -> unregister_connection.
Unregister(id) ==
    /\ \E e \in streams : e[1] = id
    /\ streams' = {e \in streams : e[1] # id}
    /\ socks' = {s \in socks : \A e \in streams : e[1] = id => s.fd # e[2]}
    /\ UNCHANGED accepted
    /\ OnlyIds

AcceptAny == \E local \in LocalAddrs, peer \in PeerAddrs : Accept(local, peer)
UnregisterAny == \E s \in socks : Unregister(s.id)

NextIds == AcceptAny \/ UnregisterAny

(***************************************************************************)
(* The lock of the User block                                              *)
(***************************************************************************)

\* The calls begun in one behaviour.
MaxCalls == 3

\* The threads that reach a client's User block: the dispatcher (the
\* handlers), the Worker (the status test of readable) and a channel's
\* actor (replies sent through a Member).
LockThreads == {"dispatcher", "worker", "actor"}

\* Client::send_response: build_response takes the nick through a read
\* guard that ends with the format!, then send_raw enqueues the event.
send_response_steps == <<"read", "drop_read", "send">>

\* Server::send_welcome_msg: `info` is a read guard that lives to the end
\* of the function, across send_response.
send_welcome_msg_steps == <<"read">> \o send_response_steps \o <<"drop_read">>

\* cap::suspend_registration and cap::continue_registration: the status is
\* read in a block of its own, then written.
set_status_steps == <<"read", "drop_read", "write", "drop_write">>

\* A statement `server.send_msg(&client, CAP, &[&*client.nick(), ..])` of
\* cap::Handler::invoke: the guard of client.nick() is a temporary of the
\* statement and ends after the call that enqueues.
cap_send_msg_steps == <<"read", "send", "drop_read">>

\* What a thread may run: the dispatcher a CAP LS, a CAP LIST, a CAP END
\* that registers, a NICK that registers and an error reply; the Worker the
\* status test; the actor a reply to a member.
Calls(t) ==
    CASE t = "dispatcher" ->
           {set_status_steps \o cap_send_msg_steps,
            cap_send_msg_steps,
            set_status_steps \o send_welcome_msg_steps,
            <<"write", "drop_write">> \o set_status_steps
                \o send_welcome_msg_steps,
            send_response_steps}
      [] t = "worker" -> {<<"read", "drop_read">>}
      [] t = "actor" -> {send_response_steps}

InitLocks ==
    /\ rwlock = [readers |-> [t \in LockThreads |-> 0], writer |-> "none"]
    /\ running = [t \in LockThreads |-> <<>>]
    /\ started = 0

\* A thread begins a call.
Begin(t) ==
    /\ running[t] = <<>>
    /\ started < MaxCalls
    /\ \E steps \in Calls(t) : running' = [running EXCEPT ![t] = steps]
    /\ started' = started + 1
    /\ UNCHANGED rwlock
    /\ OnlyLocks

\* The next step of thread t is `step`; it is taken.
Takes(t, step) ==
    /\ running[t] # <<>>
    /\ Head(running[t]) = step
    /\ running' = [running EXCEPT ![t] = Tail(@)]
    /\ UNCHANGED started
    /\ OnlyLocks

\* Client::info: RwLock::read returns when no writer holds the lock.
Read(t) ==
    /\ Takes(t, "read")
    /\ rwlock.writer = "none"
    /\ rwlock' = [rwlock EXCEPT !.readers[t] = @ + 1]

\* A RwLockReadGuard is dropped.
DropRead(t) ==
    /\ Takes(t, "drop_read")
    /\ rwlock' = [rwlock EXCEPT !.readers[t] = @ - 1]

\* Client::info_mut: RwLock::write returns when nobody holds the lock.
Write(t) ==
    /\ Takes(t, "write")
    /\ rwlock.writer = "none"
    /\ \A u \in LockThreads : rwlock.readers[u] = 0
    /\ rwlock' = [rwlock EXCEPT !.writer = t]

\* The RwLockWriteGuard is dropped.
DropWrite(t) ==
    /\ Takes(t, "drop_write")
    /\ rwlock' = [rwlock EXCEPT !.writer = "none"]

\* Client::send: the event is enqueued for the Worker.
Send(t) ==
    /\ Takes(t, "send")
    /\ UNCHANGED rwlock

NextLocks ==
    \/ \E t \in LockThreads : Begin(t)
    \/ \E t \in LockThreads : Read(t)
    \/ \E t \in LockThreads : DropRead(t)
    \/ \E t \in LockThreads : Write(t)
    \/ \E t \in LockThreads : DropWrite(t)
    \/ \E t \in LockThreads : Send(t)

\* Everything but the function under test is as at the start.
InitRest ==
    /\ InitReader /\ InitWriter /\ InitServer /\ InitChannels /\ InitEvents
    /\ InitIds /\ InitLocks

(***************************************************************************)
(* HostMask::matches                                                       *)
(***************************************************************************)

\* The longest mask and the longest string matched against it.
MaxMaskLen == 3

\* All sequences over `alphabet` of length at most n.
SeqsUpTo(alphabet, n) == UNION {[1..k -> alphabet] : k \in 0..n}

MaskChars == {"*", ".", "a", "c"}
HostChars == {".", "a", "c"}

\* The inner `while` of matches: the characters of the string are consumed
\* until the one the mask has after its `*` is the next.
RECURSIVE SkipUntil(_, _)
SkipUntil(mask_chars, next) ==
    IF mask_chars # <<>> /\ Head(mask_chars) # next
    THEN SkipUntil(Tail(mask_chars), next)
    ELSE mask_chars

\* HostMask::matches: chars are the characters of self.mask, mask_chars
\* those of the string given.
RECURSIVE matches(_, _)
matches(chars, mask_chars) ==
    IF chars = <<>> THEN mask_chars = <<>>
    ELSE IF Head(chars) = "*"
    THEN IF Tail(chars) = <<>> THEN TRUE
         ELSE matches(Tail(chars), SkipUntil(mask_chars, Head(Tail(chars))))
    ELSE IF mask_chars = <<>> THEN FALSE
    ELSE IF Head(chars) # Head(mask_chars) THEN FALSE
    ELSE matches(Tail(chars), Tail(mask_chars))

\* A mask and a string are chosen.
InitMatches ==
    /\ InitRest
    /\ input \in [fn : {"matches"}, mask : SeqsUpTo(MaskChars, MaxMaskLen),
                  s : SeqsUpTo(HostChars, MaxMaskLen)]
    /\ output = <<>>

\* The call.
CallMatches ==
    /\ output = <<>>
    /\ output' = <<matches(input.mask, input.s)>>
    /\ UNCHANGED input
    /\ OnlyPure

(***************************************************************************)
(* modes_do on its own                                                     *)
(***************************************************************************)

\* The most parameters that follow the channel name of a MODE line.
MaxModeTokens == 3

\* Parameters of a MODE line: signed and unsigned runs of letters, known
\* and unknown, and the empty parameter.
ModeTokens ==
    {<<"+", "b">>, <<"+", "b", "e">>, <<"b">>, <<"-", "o", "o">>,
     <<"+", "g">>, <<"+", "i">>, <<"x">>, <<"+", "k", "i">>, <<>>}

\* What Message::params can hold: Message::init keeps no empty middle
\* parameter, only the trailing one may be empty.
ModeParams ==
    {ps \in SeqsUpTo(ModeTokens, MaxModeTokens) :
        \A i \in 1..Len(ps) : ps[i] = <<>> => i = Len(ps)}

\* The parameters after the channel name are chosen.
InitModes ==
    /\ InitRest
    /\ input \in [fn : {"modes_do"}, params : ModeParams]
    /\ output = <<>>

\* The call, with a block that records its arguments.
CallModes ==
    /\ output = <<>>
    /\ output' = <<modes_do(input.params, <<>>)>>
    /\ UNCHANGED input
    /\ OnlyPure

(***************************************************************************)
(* join::Handler on its own                                                *)
(***************************************************************************)

\* The most channel names, and the most keys, of a JOIN line.
MaxJoinItems == 3

\* Valid channel names and keys, short ones and ones of eleven bytes.
JoinNames == {"#c", "#d", "#elevenchar"}
JoinKeys == {"k", "long-secret"}

\* A JOIN line is chosen: its list of names, and its list of keys (the line
\* has no second parameter when that list is empty).
InitJoin ==
    /\ InitRest
    /\ input \in [fn : {"join"},
                  names : SeqsUpTo(JoinNames, MaxJoinItems) \ {<<>>},
                  keys : SeqsUpTo(JoinKeys, MaxJoinItems)]
    /\ output = <<>>

\* The handler is built from the line and invoked.
CallJoin ==
    /\ output = <<>>
    /\ output' = <<join_Handler(IF input.keys = <<>> THEN <<input.names>>
                                ELSE <<input.names, input.keys>>)>>
    /\ UNCHANGED input
    /\ OnlyPure

(***************************************************************************)
(* The list replies on their own                                           *)
(***************************************************************************)

\* The members a listed channel may have: each client with or without the
\* operator privilege.
ListMembers ==
    {[id |-> c, nick |-> NickOf[c], flags |-> f] :
        c \in Clients, f \in {{}, {"OperatorPrivilege"}}}

\* The channels a list is asked of.
ListChannels ==
    {[NewChannel("#c") EXCEPT !.flags = fl, !.members = ms,
                              !.nicknames = {<<m.id, m.nick>> : m \in ms}] :
        fl \in SUBSET {"Private", "Secret"},
        ms \in {x \in SUBSET ListMembers :
                  \A m, n \in x : m.id = n.id => m = n}}

\* A client asks for the names or the WHO list of a channel.
InitList ==
    /\ InitRest
    /\ input \in [fn : {"list"}, handler : {"names", "who"},
                  channel : ListChannels, client : Clients,
                  op_only : BOOLEAN]
    /\ output = <<>>

\* The channel's thread runs the closure the handler posted.
CallList ==
    /\ output = <<>>
    /\ output' = <<IF input.handler = "names"
                   THEN send_names(input.channel, input.client)
                   ELSE handle_who(input.channel, input.client,
                                   input.op_only)>>
    /\ UNCHANGED input
    /\ OnlyPure

(***************************************************************************)
(* The fan-out of a channel message on its own                             *)
(***************************************************************************)

\* The members of a channel that is spoken to: each client with any of the
\* two privileges.
SayMembers ==
    {[id |-> c, nick |-> NickOf[c], flags |-> f] :
        c \in Clients, f \in SUBSET {"VoicePrivilege", "OperatorPrivilege"}}

\* The channels spoken to.
SayChannels ==
    {[NewChannel("#c") EXCEPT !.flags = fl, !.members = ms,
                              !.nicknames = {<<m.id, m.nick>> : m \in ms}] :
        fl \in SUBSET {"MemberOnly", "Moderated"},
        ms \in {x \in SUBSET SayMembers :
                  \A m, n \in x : m.id = n.id => m = n}}

\* A client sends a PRIVMSG to the channel.
InitSay ==
    /\ InitRest
    /\ input \in [fn : {"say"}, channel : SayChannels, client : Clients]
    /\ output = <<>>

\* The channel's thread runs the closure privmsg::Handler posted.
CallSay ==
    /\ output = <<>>
    /\ output' = <<handle_privmsg(input.channel, input.client,
                                  NickOf[input.client])>>
    /\ UNCHANGED input
    /\ OnlyPure

(***************************************************************************)
(* handle_join on its own                                                  *)
(***************************************************************************)

\* The channels a client asks to join: with or without key and topic,
\* invite-only or secret or neither, with any of the clients in it.
JoinedChannels ==
    {[NewChannel("#c") EXCEPT
        !.flags = fl, !.password = pw, !.topic = tp,
        !.members = {[id |-> c, nick |-> NickOf[c], flags |-> {}] : c \in ms},
        !.nicknames = {<<c, NickOf[c]>> : c \in ms}] :
        fl \in SUBSET {"InviteOnly", "Secret"}, pw \in {None, Some("k")},
        tp \in {"", "t"}, ms \in SUBSET Clients}

\* A client asks to join the channel, with the key or without.
InitEnter ==
    /\ InitRest
    /\ input \in [fn : {"enter"}, channel : JoinedChannels, client : Clients,
                  password : {None, Some("k")}]
    /\ output = <<>>

\* The channel's thread runs the closure join::Handler posted.
CallEnter ==
    /\ output = <<>>
    /\ output' = <<handle_join(input.channel,
                               [id |-> input.client,
                                nick |-> NickOf[input.client], flags |-> {}],
                               input.password)>>
    /\ UNCHANGED input
    /\ OnlyPure

(***************************************************************************)
(* Message::new and Client::build_msg                                      *)
(***************************************************************************)

\* The longest line parsed.
MaxLineLen == 6

\* The bytes of a line: the three delimiters, a letter, and a byte that is
\* not ASCII.
LineBytes == {"@", ":", " ", "J", "0x80"}

\* slice.is_ascii
is_ascii(bytes) == \A i \in 1..Len(bytes) : bytes[i] # "0x80"

\* Command::from_slice and the Display of Command: the one command of the
\* model is spelled with the letter of LineBytes.
Command_from_slice(cmd) == IF cmd = <<"J">> THEN Some("JOIN") ELSE None
Command_display(cmd) == IF cmd = "JOIN" THEN <<"J">> ELSE <<>>

\* iter().position(|&v| v == byte): the index from 0 of the first
\* occurrence, -1 for None.
PositionOf(this, byte) ==
    IF \E i \in 1..Len(this) : this[i] = byte
    THEN (CHOOSE i \in 1..Len(this) :
             this[i] = byte /\ \A j \in 1..(i - 1) : this[j] # byte) - 1
    ELSE -1

\* position(this, needle) for a needle of two bytes.
position(this, needle) ==
    LET hit(i) == this[i] = needle[1] /\ this[i + 1] = needle[2]
    IN  IF \E i \in 1..(Len(this) - 1) : hit(i)
        THEN (CHOOSE i \in 1..(Len(this) - 1) :
                 hit(i) /\ \A j \in 1..(i - 1) : ~hit(j)) - 1
        ELSE -1

\* slice.split(|&x| x == byte): at least one item, empty ones included.
RECURSIVE split(_, _)
split(this, byte) ==
    LET at == PositionOf(this, byte)
    IN  IF at = -1 THEN <<this>>
        ELSE <<SubSeq(this, 1, at)>>
                 \o split(SubSeq(this, at + 2, Len(this)), byte)

\* The loop of Message::init over the middle parameters: the ranges of the
\* non-empty ones, counted from `start`.
RECURSIVE MiddleRanges(_, _)
MiddleRanges(middle, start) ==
    IF middle = <<>> THEN <<>>
    ELSE LET slice == <<start, start + Len(Head(middle))>>
             rest == MiddleRanges(Tail(middle), slice[2] + 1)
         IN  IF slice[1] # slice[2] THEN <<slice>> \o rest ELSE rest

\* The result of Message::new when init returned Err.
MessageErr(bytes) ==
    [ok |-> FALSE, message |-> bytes, prefix |-> None, command |-> <<0, 0>>,
     params |-> <<>>]

\* Message::new with Message::init: the ranges a..b of the source are the
\* pairs <<a, b>>, counted from 0 in the whole line.
Message_new(bytes) ==
    LET tags == bytes # <<>> /\ bytes[1] = "@"
        tags_end == PositionOf(bytes, " ")
        prefix_start == IF tags THEN tags_end + 1 ELSE 0
        message1 == SubSeq(bytes, prefix_start + 1, Len(bytes))
        has_prefix == message1 # <<>> /\ message1[1] = ":"
        prefix_end == PositionOf(message1, " ")
        prefix == IF has_prefix
                  THEN Some(<<prefix_start + 1, prefix_start + prefix_end>>)
                  ELSE None
        message2 == IF has_prefix
                    THEN SubSeq(message1, prefix_end + 2, Len(message1))
                    ELSE message1
        cmd_start == IF prefix = None THEN 0 ELSE prefix[1][2] + 1
        trailing_pos == position(message2, <<" ", ":">>)
        trailing == IF trailing_pos = -1 THEN None
                    ELSE Some(<<cmd_start + trailing_pos + 2, Len(bytes)>>)
        message3 == IF trailing_pos = -1 THEN message2
                    ELSE SubSeq(message2, 1, trailing_pos)
        middle == split(message3, " ")
        cmd == Head(middle)
        command == <<cmd_start, cmd_start + Len(cmd)>>
    IN  IF tags /\ tags_end = -1 THEN MessageErr(bytes)
        ELSE IF has_prefix /\ prefix_end = -1 THEN MessageErr(bytes)
        ELSE IF ~is_ascii(cmd) THEN MessageErr(bytes)
        ELSE [ok |-> TRUE, message |-> bytes, prefix |-> prefix,
              command |-> command,
              params |-> MiddleRanges(Tail(middle), command[2] + 1)
                             \o trailing]

\* &self.message[range]
Slice(m, range) == SubSeq(m.message, range[1] + 1, range[2])

\* Message::prefix, Message::command_bytes, Message::command and the items
\* of Message::params.
Message_prefix(m) ==
    IF m.prefix = None THEN None ELSE Some(Slice(m, m.prefix[1]))
Message_command_bytes(m) == Slice(m, m.command)
Message_command(m) == Command_from_slice(Message_command_bytes(m))
Message_params(m) == [i \in 1..Len(m.params) |-> Slice(m, m.params[i])]

\* Client::push_tail
RECURSIVE push_tail(_, _)
push_tail(msg, payload) ==
    IF payload = <<>> THEN msg
    ELSE IF Len(payload) = 1 THEN msg \o <<" ", ":">> \o payload[1]
    ELSE push_tail(msg \o <<" ">> \o Head(payload), Tail(payload))

\* Client::build_msg, `origin` being the bytes of the host name or of the
\* nick.
build_msg(cmd, payload, origin) ==
    push_tail(<<":">> \o origin \o <<" ">> \o Command_display(cmd), payload)

\* The tags block put in front of a line.
TagsBlock == <<"@", "J", " ">>

\* A line is chosen.
InitParse ==
    /\ InitRest
    /\ input \in [fn : {"parse"}, line : SeqsUpTo(LineBytes, MaxLineLen)]
    /\ output = <<>>

\* The line is parsed, alone and behind a tags block; a message with a
\* prefix and a known command is built again from its parts.
CallParse ==
    /\ output = <<>>
    /\ LET m == Message_new(input.line)
           cmd == Message_command(m)
       IN  output' =
             <<[plain |-> m,
                tagged |-> Message_new(TagsBlock \o input.line),
                built |-> IF m.ok /\ m.prefix # None /\ cmd # None
                          THEN Some(build_msg(cmd[1], Message_params(m),
                                              Message_prefix(m)[1]))
                          ELSE None]>>
    /\ UNCHANGED input
    /\ OnlyPure

NextReg ==
    \/ \E c \in Clients : Connect(c)
    \/ SendReg
    \/ \E c \in Clients : WorkerRead(c)
    \/ WorkerNotify
    \/ DispatchConnected
    \/ DispatchNick
    \/ DispatchUser
    \/ DispatchCap
    \/ DispatchMode

\* The lines of a client that registers and negotiates capabilities, with
\* no other client connected.
CapMenu == {m \in RegMenu : m.cmd # "MODE"}

SendCap == \E m \in CapMenu : ClientSend(1, m, MaxLines)

NextCap ==
    \/ Connect(1)
    \/ SendCap
    \/ WorkerRead(1)
    \/ WorkerNotify
    \/ DispatchConnected
    \/ DispatchNick
    \/ DispatchUser
    \/ DispatchCap

\* Every line the client has sent has been handled by the dispatcher.
Settled(c) ==
    /\ c \in clients
    /\ linein[c] = <<>>
    /\ \A k \in 1..Len(serverQ) : serverQ[k].id # c

\* The client has sent one accepted NICK, one accepted USER, and besides
\* them nothing but CAP END.
PlainRegistration(c) == script[c].ok /\ script[c].nick /\ script[c].user

\* ---- C1 ----
\* C1: a freshly connected client whose NICK and USER are both accepted, in
\* either order, with CAP END anywhere around them and no CAP LS or REQ, is
\* Registered once its lines are handled, and has been sent a 001 reply whose
\* first parameter is its nickname.
C1_Registers ==
    \A c \in Clients :
        (PlainRegistration(c) /\ Settled(c)) =>
            /\ info[c].status = "Registered"
            /\ welcomes[c].n >= 1
            /\ welcomes[c].nick = info[c].nick
            /\ info[c].nick \in Nicks

C1_Witness ==
    \E c \in Clients :
        /\ PlainRegistration(c)
        /\ script[c].cap
        /\ Settled(c)
        /\ info[c].status = "Registered"
        /\ welcomes[c].n = 1

\* ---- C2 ----
\* C2: over any sequence of NICK, USER and CAP commands on one connection the
\* 001 reply is sent to that client at most once.
C2_WelcomeOnce == \A c \in Clients : welcomes[c].n <= 1

\* ---- C3 ----
\* C3: Registered is terminal: a client whose status is Registered is still
\* Registered after any further step.
C3_RegisteredTerminal ==
    [][\A c \in Clients :
          info[c].status = "Registered" => info'[c].status = "Registered"]_vars

\* ---- C4 ----
\* C4: whenever the dispatcher invokes a handler for a command other than
\* NICK, USER, CAP or QUIT, the client's status is Registered at that moment.
C4_Gate ==
    lastInvoke.cmd \notin {"", "NICK", "USER", "CAP", "QUIT"}
        => lastInvoke.status = "Registered"

\* Only joins have been sent to the channel, each by another client.
OnlyDistinctJoins(ch) ==
    /\ \A k \in 1..Len(posted[ch]) : posted[ch][k].kind = "join"
    /\ \A j, k \in 1..Len(posted[ch]) :
          posted[ch][j].id = posted[ch][k].id => j = k

\* The members of the channel that hold the privilege.
Holders(ch, flag) == {m.id : m \in {x \in chan[ch].members : flag \in x.flags}}

\* ---- C5 ----
\* C5: when N joins by N different clients are sent to a newly created
\* channel (no key, ban, invite-only or limit) and all have run, the channel
\* has N members and exactly the client whose join ran first holds the
\* ChannelCreator and the Operator privilege.
C5_JoinsCounted ==
    \A ch \in channels :
        (OnlyDistinctJoins(ch) /\ posted[ch] # <<>> /\ chanQ[ch] = <<>>) =>
            /\ member_count(chan[ch]) = Len(posted[ch])
            /\ Holders(ch, "ChannelCreator") = {executed[ch][1].id}
            /\ Holders(ch, "OperatorPrivilege") = {executed[ch][1].id}

C5_Witness ==
    \E ch \in channels :
        /\ OnlyDistinctJoins(ch)
        /\ Len(posted[ch]) = Cardinality(Registrants)
        /\ Len(posted[ch]) >= 2
        /\ chanQ[ch] = <<>>
        /\ member_count(chan[ch]) = Len(posted[ch])

\* ---- C6 ----
\* C6: the operations sent through one channel's Proxy, by with_ref and by
\* with_ref_mut, are run one at a time in the order in which they were sent:
\* what has run is always the beginning of what was sent, and what waits in
\* the queue is the rest of it.
C6_PostOrder ==
    \A ch \in Chans :
        /\ Len(executed[ch]) <= Len(posted[ch])
        /\ executed[ch] = SubSeq(posted[ch], 1, Len(executed[ch]))
        /\ actorAlive[ch] =>
              chanQ[ch] = SubSeq(posted[ch], Len(executed[ch]) + 1,
                                 Len(posted[ch]))

C6_Witness ==
    \E ch \in Chans :
        /\ Len(executed[ch]) >= 3
        /\ \E j, k \in 1..Len(executed[ch]) :
              /\ executed[ch][j].handle = "Handle"
              /\ executed[ch][k].handle = "HandleMut"
              /\ executed[ch][j].id # executed[ch][k].id

\* ---- C9 ----
\* C9: no inbound line stops the dispatcher or a channel actor: the thread
\* that handles a parsed message never aborts.
C9_NoAbort == alive /\ \A ch \in Chans : actorAlive[ch]

\* ---- C11 ----
\* C11: whenever the event loop reports hangup or error for a registered
\* connection, with whatever other readiness bits, the connection is
\* eventually removed from the Worker's maps and the dispatcher handles its
\* Disconnected event (the client leaves the client registry).
C11_HangupTearsDown ==
    \A c \in Clients : hup[c] ~> (c \notin conn /\ c \notin clients)

\* The channels client c is a member of.
MemberOf(c) == {ch \in Chans : \E m \in chan[ch].members : m.id = c}

\* The teardown of client c has completed: the dispatcher has handled its
\* QUIT and then its Disconnected event (only a handled QUIT makes the
\* Worker send Disconnected), nothing waits in a queue and no thread has
\* died.
TornDown(c) ==
    /\ c \notin clients
    /\ c \notin conn
    /\ serverQ = <<>>
    /\ clientQ = <<>>
    /\ \A ch \in Chans : chanQ[ch] = <<>> /\ actorAlive[ch]
    /\ alive

\* ---- C12 ----
\* C12: once a client's teardown has completed (QUIT and Disconnected handled
\* by the dispatcher, every channel queue drained), that client is a member
\* of no channel, whatever it had sent before or after the QUIT.
C12_NoMemberAfterTeardown ==
    \A c \in Clients : TornDown(c) => MemberOf(c) = {}

\* The actor of channel ch runs the closure of a JOIN in this step.
JoinRuns(ch) ==
    /\ ActorAt(ch, "join")
    /\ executed'[ch] = Append(executed[ch], Recv(chanQ[ch]).event)

\* Channel ch has as many members as the limit a MODE +l set (only
\* handle_mode, which answers 482 to everyone but an operator, sets a limit),
\* no key and no invite-only flag, and the client whose JOIN is next is not a
\* member.
FullFor(ch) ==
    /\ chan[ch].limit # None
    /\ chan[ch].limit[1] = member_count(chan[ch])
    /\ chan[ch].password = None
    /\ "InviteOnly" \notin chan[ch].flags
    /\ Recv(chanQ[ch]).event.id \notin {m.id : m \in chan[ch].members}

\* ---- C13 ----
\* C13: if an operator has set a channel's user limit to L with MODE +l L
\* and the channel has L members, a JOIN by a non-member is answered with 471
\* and the membership map is unchanged.
C13_LimitRefuses ==
    [][\A ch \in Chans :
         (JoinRuns(ch) /\ FullFor(ch)) =>
            /\ chan'[ch].members = chan[ch].members
            /\ \E i \in 1..Len(clientQ') :
                 /\ clientQ'[i].type = "Message"
                 /\ clientQ'[i].id = Recv(chanQ[ch]).event.id
                 /\ clientQ'[i].code = "471"]_vars

\* The closure the actor of channel ch ran last was that of a PART or a
\* QUIT, and the channel, which had members, has none.
Emptied(ch) ==
    /\ ch \in channels
    /\ executed[ch] # <<>>
    /\ executed[ch][Len(executed[ch])].kind \in {"part", "quit"}
    /\ \E i \in 1..Len(executed[ch]) : executed[ch][i].kind = "join"
    /\ member_count(chan[ch]) = 0

\* ---- C14 ----
\* C14: when a PART or QUIT brings a channel's member count back to zero,
\* the channel's entry is (eventually) removed from the server's channel
\* registry.
C14_EmptyChannelRemoved ==
    \A ch \in Chans : Emptied(ch) ~> (ch \notin channels)

\* A handler's post to the Proxy of channel ch fails in this step: the
\* dispatcher invokes the handler of a line that names ch (QUIT posts to
\* every channel of the registry) and the actor of ch is gone.
PostFails(ch) ==
    /\ alive
    /\ serverQ # <<>>
    /\ Head(serverQ).type = "InboundMessage"
    /\ Head(serverQ).id \in clients
    /\ serverQ' = Tail(serverQ)
    /\ ch \in channels
    /\ ~actorAlive[ch]
    /\ LET m == Head(serverQ).msg
       IN  \/ m.cmd = "QUIT"
           \/ /\ m.cmd \in {"JOIN", "PART", "NAMES", "MODE", "PRIVMSG"}
              /\ Len(m.params) >= 1
              /\ m.params[1] = Word(ch)

\* ---- C15 ----
\* C15: whenever a handler's post to a channel Proxy fails because the actor
\* is gone (in JOIN, PART, MODE, NAMES, QUIT or PRIVMSG), the dispatcher
\* removes that channel's registry entry.
C15_LostChannelPurged ==
    [][\A ch \in Chans : PostFails(ch) => ch \notin channels']_vars

\* stream.write returns an error in this step: writable leaves its loop
\* with buffers still queued.
WriteFails == wpc = "loop" /\ buffers # <<>> /\ wpc' = "idle"

\* ---- C16 ----
\* C16: when a write to the connection's socket fails with an error, the
\* rest of the connection's outbound queue is dropped (and the teardown of
\* the connection is scheduled).
C16_WriteErrorDrops == [][WriteFails => buffers' = <<>>]_vars

\* The lines Worker::readable hands to the parser and then forwards to the
\* dispatcher: the items the reader yields as Ok (the error items are only
\* logged, and no arm of the loop unregisters the connection).
Forwarded == {yields[m] : m \in OkYields}

\* ---- C17 ----
\* C17: a framing error never ends the connection's service: every
\* well-formed, non-empty line the peer sends afterwards (one that starts
\* right after a "\r\n" pair that follows the error) is still forwarded to
\* the dispatcher once the reader has consumed it.
C17_LinesAfterError ==
    \A k \in ErrYields :
      \A s, q \in 1..Len(sent) :
        ( /\ s - 2 > yields[k].at
          /\ IsPair(s - 2)
          /\ q > s
          /\ WellFormedLine(s, q)
          /\ reader.off >= q + 1 )
        => \E y \in Forwarded :
              /\ y.at = q + 1
              /\ y.line = SubSeq(sent, s, q - 1)

\* The dispatcher invokes the handler of client c's CAP line with
\* subcommand sub in this step.
CapRuns(c, sub) ==
    /\ HeadIs("CAP")
    /\ Head(serverQ).id = c
    /\ c \in clients
    /\ CapFromMessage(Head(serverQ).msg) = "ok"
    /\ Str(Head(serverQ).msg.params[1]) = sub
    /\ serverQ' = Tail(serverQ)

\* The status a Negotiating status wraps.
Inner(status) == CHOOSE p \in Plain : status = Negotiating(p)

\* ---- C18 ----
\* C18: CAP LS, CAP REQ and CAP LIST issued in a non-negotiating status s
\* set the status to Negotiating(s) and leave a Negotiating status
\* unchanged; a following CAP END restores exactly s.
C18_CapWraps ==
    [][\A c \in Clients :
         /\ \A sub \in {"LS", "REQ", "LIST"} :
              CapRuns(c, sub) =>
                 info'[c].status = IF IsNegotiating(info[c].status)
                                   THEN info[c].status
                                   ELSE Negotiating(info[c].status)
         /\ (CapRuns(c, "END") /\ IsNegotiating(info[c].status)) =>
                 info'[c].status = Inner(info[c].status)]_vars

\* ---- C19 ----
\* C19: a CAP END invoked when the status is not Negotiating(*) changes no
\* state and sends nothing (so the second of two consecutive CAP END
\* commands never sends a 001).
C19_EndIsNoOp ==
    [][\A c \in Clients :
         (CapRuns(c, "END") /\ ~IsNegotiating(info[c].status)) =>
            UNCHANGED <<info, clientQ, clients, nicks, welcomes, conn,
                        cvars>>]_vars

\* A CAP END has been invoked for a Registered client that had its welcome.
C19_Witness ==
    /\ lastInvoke.cmd = "CAP"
    /\ lastInvoke.arg = "END"
    /\ lastInvoke.status = "Registered"
    /\ lastInvoke.id \in Clients
    /\ welcomes[lastInvoke.id].n = 1

\* The dispatcher invokes the handler of client c's USER line (one that
\* from_message accepts: four parameters) in this step.
UserRuns(c) ==
    /\ HeadIs("USER")
    /\ Head(serverQ).id = c
    /\ c \in clients
    /\ UserFromMessage(Head(serverQ).msg) = "ok"
    /\ serverQ' = Tail(serverQ)

\* ---- C20 ----
\* C20: a USER command invoked in status Registered, NameRegistered,
\* Negotiating(NameRegistered) or Negotiating(Registered) is answered with
\* 462, sends no 001 and leaves the client's status, username and realname
\* unchanged.
C20_UserRejected ==
    [][\A c \in Clients :
         ( /\ UserRuns(c)
           /\ info[c].status \in
                {"Registered", "NameRegistered",
                 Negotiating("NameRegistered"), Negotiating("Registered")} )
         => /\ clientQ' = Append(clientQ, Reply(c, "462", info[c].nick))
            /\ welcomes' = welcomes
            /\ info' = info]_vars

\* A USER was invoked in status Negotiating(Registered) and answered 462.
C20_Witness ==
    /\ lastInvoke.cmd = "USER"
    /\ lastInvoke.status = Negotiating("Registered")
    /\ \E i \in 1..Len(clientQ) :
         clientQ[i].code = "462" /\ clientQ[i].id = lastInvoke.id

\* ---- C21 ----
\* C21: no two connections that are open at the same time have the same
\* ClientId: the id given to a connection as it is accepted is the id of no
\* connection open at that moment.
C21_UniqueIds ==
    [][\A s \in socks' \ socks : \A t \in socks : t.id # s.id]_vars

\* s can be obtained from the mask by replacing each `*` with a string of
\* zero or more characters.
RECURSIVE Glob(_, _)
Glob(mask, s) ==
    IF mask = <<>> THEN s = <<>>
    ELSE IF Head(mask) = "*"
    THEN \E k \in 0..Len(s) : Glob(Tail(mask), SubSeq(s, k + 1, Len(s)))
    ELSE s # <<>> /\ Head(mask) = Head(s) /\ Glob(Tail(mask), Tail(s))

\* ---- C22 ----
\* C22: HostMask::matches is true exactly when the string can be obtained
\* from the mask by replacing each `*` with zero or more characters, all
\* other characters compared exactly.
C22_MatchesIsGlob ==
    (input # <<>> /\ input.fn = "matches" /\ output # <<>>) =>
        (output[1] <=> Glob(input.mask, input.s))

\* ---- C23 ----
\* The modes that take a parameter when added or removed.
Parametrized ==
    {"ChannelKey", "UserLimit", "BanMask", "ExceptionMask", "InvitationMask",
     "OperatorPrivilege", "VoicePrivilege"}

\* The action a parameter's sign stands for.
SignOf(tok) ==
    IF tok # <<>> /\ tok[1] = "+" THEN "Add"
    ELSE IF tok # <<>> /\ tok[1] = "-" THEN "Remove"
    ELSE "Show"

\* The recognized letters of a parameter, its sign left out.
Recognized(tok) ==
    SelectSeq(IF SignOf(tok) = "Show" THEN tok ELSE Tail(tok),
              LAMBDA l : l \in DOMAIN ModeOf)

\* How many of the first n recognized letters of tok take a parameter.
Taking(tok, n) ==
    IF SignOf(tok) = "Show" THEN 0
    ELSE Len(SelectSeq(SubSeq(Recognized(tok), 1, n),
                       LAMBDA l : ModeOf[l] \in Parametrized))

\* The triples expected from the parameters i.. of tokens, parameter i being
\* a run of letters.
RECURSIVE Expected(_, _)
Expected(tokens, i) ==
    IF i > Len(tokens) THEN <<>>
    ELSE LET tok == tokens[i]
             ls == Recognized(tok)
             one(j) ==
                 LET at == i + Taking(tok, j - 1) + 1
                     takes == Taking(tok, j) > Taking(tok, j - 1)
                 IN  [action |-> SignOf(tok), mode |-> ModeOf[ls[j]],
                      parameter |-> IF takes /\ at <= Len(tokens)
                                    THEN <<tokens[at]>> ELSE <<>>]
         IN  [j \in 1..Len(ls) |-> one(j)]
                 \o Expected(tokens, i + 1 + Taking(tok, Len(ls)))

\* C23: modes_do reports one (action, mode, parameter) triple per
\* recognized mode letter, in order: Add after `+`, Remove after `-`, Show
\* with no sign; a mode that takes a parameter under Add or Remove gets the
\* next parameter not yet consumed (None when none is left); Show and the
\* parameterless modes consume none; unknown letters report nothing.
C23_ModeTriples ==
    (input # <<>> /\ input.fn = "modes_do" /\ output # <<>>) =>
        output[1].triples = Expected(input.params, 1)

\* After a run of letters, two operator letters were removed with one
\* parameter left: the first got it, the second got none.
C23_Witness ==
    /\ input # <<>> /\ input.fn = "modes_do" /\ output # <<>>
    /\ Len(input.params) = 3
    /\ input.params[2] = <<"-", "o", "o">>
    /\ Len(output[1].triples) = 3
    /\ output[1].triples[1].action = "Add"
    /\ output[1].triples[2].parameter # None
    /\ output[1].triples[3].parameter = None

\* ---- C24 ----
\* The bytes of a line that are neither tags block nor prefix: what is left
\* after a leading `@...` up to its space (or the end) and a leading `:...`
\* up to its space (or the end).
RECURSIVE DropWord(_)
DropWord(line) ==
    IF line = <<>> THEN <<>>
    ELSE IF Head(line) = " " THEN Tail(line)
    ELSE DropWord(Tail(line))

AfterTags(line) ==
    IF line # <<>> /\ Head(line) = "@" THEN DropWord(line) ELSE line

AfterPrefix(line) ==
    IF AfterTags(line) # <<>> /\ Head(AfterTags(line)) = ":"
    THEN DropWord(AfterTags(line)) ELSE AfterTags(line)

\* The line has no command token: nothing follows its tags block and its
\* prefix.
NoCommand(line) == AfterPrefix(line) = <<>>

\* C24: Message::new returns an error for every line that contains no
\* command token: the empty line, a line that is only a tags block, a line
\* that is only a prefix, with or without a following space.
C24_NoCommandIsError ==
    (input # <<>> /\ input.fn = "parse" /\ output # <<>>
        /\ NoCommand(input.line)) => ~output[1].plain.ok

\* ---- C25 ----
\* The prefix, command and parameter byte strings of a parsed message.
Parts(m) ==
    [prefix |-> Message_prefix(m), command |-> Message_command_bytes(m),
     params |-> Message_params(m)]

\* C25: a leading `@tags ` block is discarded: for every line L that parses
\* (L without a tags block of its own), `@tags ` followed by L parses to the
\* same prefix, command and parameter byte strings as L, whether or not L
\* has a prefix.
C25_TagsDiscarded ==
    (input # <<>> /\ input.fn = "parse" /\ output # <<>>
        /\ output[1].plain.ok
        /\ (input.line = <<>> \/ Head(input.line) # "@")) =>
        /\ output[1].tagged.ok
        /\ Parts(output[1].tagged) = Parts(output[1].plain)

\* ---- C26 ----
\* No tags block, a prefix that is not empty, single spaces only and none
\* at the end.
WellSpaced(line) ==
    /\ Len(line) >= 2 /\ line[1] = ":" /\ line[2] # " "
    /\ line[Len(line)] # " "
    /\ \A i \in 1..(Len(line) - 1) : ~(line[i] = " " /\ line[i + 1] = " ")

\* C26: for any syntactically valid line (here: without tags, with a
\* prefix and the known command, single spaces), the wire line built from
\* the parsed origin, command and parameter list has the same bytes as the
\* line.
C26_RoundTrip ==
    (input # <<>> /\ input.fn = "parse" /\ output # <<>>
        /\ output[1].built # None /\ WellSpaced(input.line)) =>
        output[1].built[1] = input.line

\* ---- C27 ----
\* The replies (events of Client::send_response) for client c among the
\* events the step has added to the Worker's queue.
NewReplies(c) ==
    SelectSeq(SubSeq(clientQ', Len(clientQ) + 1, Len(clientQ')),
              LAMBDA e : e.type = "Message" /\ e.id = c)

\* The dispatcher handles a line `cmd` of a client of the registry.
Handles(cmd) ==
    /\ HeadIs(cmd)
    /\ serverQ' = Tail(serverQ)
    /\ Head(serverQ).id \in clients

\* The receiver of the line is a nickname nobody has or a channel that
\* does not exist.
UnknownReceiver ==
    /\ Len(Head(serverQ).msg.params) > 0
    /\ LET recv == Str(Head(serverQ).msg.params[1])
       IN  \/ recv = "#c" /\ recv \notin channels
           \/ recv = "z"

\* C27: a NOTICE never causes any reply to its sender, whatever its target
\* (missing, invalid, unknown nickname or unknown channel), whereas a
\* PRIVMSG to an unknown nickname or channel is answered with 401.
C27_NoticeSilent ==
    [][/\ Handles("NOTICE") => NewReplies(Head(serverQ).id) = <<>>
       /\ (Handles("PRIVMSG") /\ UnknownReceiver) =>
              LET c == Head(serverQ).id
              IN  NewReplies(c) = <<Reply(c, "401", info[c].nick)>>]_vars

\* The dispatcher has handled a NOTICE to a nickname nobody has, and the
\* Worker's queue holds nothing for anyone.
C27_Witness ==
    /\ lastInvoke.cmd = "NOTICE" /\ lastInvoke.arg = "z"
    /\ lastInvoke.id \in clients
    /\ serverQ = <<>> /\ clientQ = <<>>

\* ---- C28 ----
\* Channel i of the line with key i when the line has that many keys, with
\* no key otherwise.
Paired(names, keys) ==
    [i \in 1..Len(names) |->
        [channel |-> names[i],
         password |-> IF i <= Len(keys) THEN <<keys[i]>> ELSE <<>>]]

\* C28: for `JOIN c1,...,cn k1,...,km` with every ci a valid channel name,
\* the handler attempts a join for each ci in order, pairing ci with key ki
\* when i <= m and with no key otherwise.
C28_JoinPairs ==
    (input # <<>> /\ input.fn = "join" /\ output # <<>>) =>
        output[1].joins = Paired(input.names, input.keys)

\* ---- C29 ----
\* Thread t holds a guard on the User block.
HoldsGuard(t) == rwlock.readers[t] > 0 \/ rwlock.writer = t

\* C29: a guard on a client's User lock lasts only for a single accessor
\* call: no thread holds a read or write guard on the User block at the
\* moment it enqueues an outbound message.
C29_NoGuardAcrossSend ==
    \A t \in LockThreads :
        (running[t] # <<>> /\ Head(running[t]) = "send") => ~HoldsGuard(t)

\* ---- C30 ----
\* A "\r\n" pair of the stream lies after offset e and ends before
\* offset q.
PairBetween(e, q) == \E p \in (e + 1)..(q - 2) : IsPair(p)

\* C30: while the MessageReader's error flag is set it yields no item,
\* neither a line nor a further error, and the flag is cleared only when a
\* \r immediately followed by \n has been consumed: between an error and
\* the item yielded after it, and between the last error and a state with
\* the flag cleared, the reader has consumed a "\r\n" pair.
C30_QuietWhileResync ==
    /\ \A m \in ErrYields :
          m < Len(yields) => PairBetween(yields[m].at, yields[m + 1].at)
    /\ (Len(yields) \in ErrYields /\ ~reader.error) =>
          PairBetween(yields[Len(yields)].at, reader.off + 2)

\* C31: every list sender built for a NAMES or WHO reply sends exactly one
\* end-of-list line to the receiver, after all the item lines of the list.
\* (send_names builds no sender for an outsider of a secret channel.)
SenderBuilt ==
    ~(/\ input.handler = "names"
      /\ "Secret" \in input.channel.flags
      /\ member_with_id(input.channel, input.client) = {})
ListCodes ==
    IF input.handler = "names" THEN [item |-> "353", end |-> "366"]
    ELSE [item |-> "352", end |-> "315"]
C31_OneEndLine ==
    (input # <<>> /\ input.fn = "list" /\ output # <<>> /\ SenderBuilt) =>
        LET lines == output[1]
        IN  /\ lines # <<>>
            /\ \A k \in 1..Len(lines) :
                 /\ lines[k].id = input.client
                 /\ lines[k].code =
                      IF k = Len(lines) THEN ListCodes.end ELSE ListCodes.item
\* The WHO list of operators of a channel with two members, one of them an
\* operator: one item line, then the end line.
C31_Witness ==
    /\ input # <<>> /\ input.fn = "list" /\ output # <<>>
    /\ input.handler = "who" /\ input.op_only
    /\ Cardinality(input.channel.members) = 2
    /\ Len(output[1]) = 2

(***************************************************************************)
(* Specifications                                                          *)
(***************************************************************************)

\* C32: every entry of the nickname registry refers to a client that is in
\* the client registry and whose current nickname is the entry's key (so
\* that no entry refers to a client whose Disconnected event has been
\* handled).
C32_RegistryDescribesClients ==
    \A n \in Nicks :
        nicks[n] # 0 => nicks[n] \in clients /\ info[nicks[n]].nick = n

\* C33: no two clients connected at the same time have the same nickname,
\* the placeholder `*` apart, and a NICK that names a nickname in the
\* registry is answered with 433 and changes neither the registry nor the
\* requester's nickname or status.
SameNick(c, d) == c # d /\ info[c].nick # "*" /\ info[c].nick = info[d].nick
NickInUse ==
    /\ HeadIs("NICK")
    /\ Head(serverQ).id \in clients
    /\ NickFromMessage(Head(serverQ).msg) = "ok"
    /\ nicks[Str(Head(serverQ).msg.params[1])] # 0
    /\ serverQ' = Tail(serverQ)
C33_UniqueNicks ==
    /\ [](\A c, d \in conn \cup clients : ~SameNick(c, d))
    /\ [][NickInUse =>
            /\ nicks' = nicks
            /\ info' = info
            /\ clientQ' = Append(clientQ, Reply(Head(serverQ).id, "433",
                                                info[Head(serverQ).id].nick))
         ]_vars
\* Two clients are connected under different nicknames, and the NICK of one
\* of them for the other's nickname has just been answered with 433.
C33_Witness ==
    /\ clients = {1, 2}
    /\ info[1].nick = "a" /\ info[2].nick = "b"
    /\ lastInvoke.cmd = "NICK" /\ lastInvoke.id = 2
    /\ clientQ = <<Reply(2, "433", "b")>>

\* C34: a JOIN that a client sends after the NICK and the USER that complete
\* its registration is forwarded to the dispatcher when the Worker examines
\* it, also when the dispatcher has not handled the NICK and the USER by
\* then.
Pending(c, cmd) ==
    \E k \in 1..Len(serverQ) :
        /\ serverQ[k].type = "InboundMessage"
        /\ serverQ[k].id = c
        /\ serverQ[k].msg.cmd = cmd
RegistrationSent(c) ==
    /\ info[c].nick # "*" \/ Pending(c, "NICK")
    /\ info[c].user # "" \/ Pending(c, "USER")
ExaminesJoin(c) ==
    /\ c \in conn
    /\ linein[c] # <<>>
    /\ Head(linein[c]).cmd = "JOIN"
    /\ linein' = [linein EXCEPT ![c] = Tail(@)]
C34_JoinAfterRegistration ==
    [][\A c \in Clients :
          (ExaminesJoin(c) /\ RegistrationSent(c)) =>
              serverQ' = Append(serverQ, InboundMessage(c, Head(linein[c])))
      ]_vars

\* C35: every complete line the peer has sent is eventually taken by the
\* reader (and yielded as a line or as an error), whether or not the peer
\* sends anything more.
Unread == \E p \in 1..MaxStream : IsPair(p) /\ reader.off < p + 1
C35_LinesRead == []<>(~Unread)

\* C36: a PRIVMSG to a channel is enqueued exactly once for each member
\* other than the sender and never for the sender; for no one when the
\* channel is member-only and the sender is no member, or moderated and the
\* sender has neither voice nor operator privilege.
Silenced(channel, c) ==
    LET sender == {m \in channel.members : m.id = c}
    IN  \/ "MemberOnly" \in channel.flags /\ sender = {}
        \/ /\ "Moderated" \in channel.flags
           /\ \A m \in sender :
                m.flags \cap {"VoicePrivilege", "OperatorPrivilege"} = {}
Receivers(channel, c) ==
    IF Silenced(channel, c) THEN {}
    ELSE {m.id : m \in channel.members} \ {c}
C36_FanOut ==
    (input # <<>> /\ input.fn = "say" /\ output # <<>>) =>
        LET events == output[1]
        IN  /\ \A k \in 1..Len(events) :
                 events[k].type = "SharedMessage" /\ events[k].code = "PRIVMSG"
            /\ \A c \in Clients :
                 Cardinality({k \in 1..Len(events) : events[k].id = c}) =
                     IF c \in Receivers(input.channel, input.client)
                     THEN 1 ELSE 0
\* An operator without voice speaks on a moderated channel that has another
\* member, who is sent the message.
C36_Witness ==
    /\ input # <<>> /\ input.fn = "say" /\ output # <<>>
    /\ "Moderated" \in input.channel.flags
    /\ \E m \in input.channel.members :
         m.id = input.client /\ m.flags = {"OperatorPrivilege"}
    /\ Len(output[1]) = 1

\* C37: a client whose JOIN succeeds is sent the JOIN broadcast that names
\* it, one topic reply (331 without topic, 332 with), the names lines and the
\* end-of-names line, in this order; every client that was a member already
\* is sent that broadcast exactly once; the JOIN of a client that is a
\* member already sends nothing and changes nothing.
CodesTo(events, c) ==
    LET mine == SelectSeq(events, LAMBDA e : e.id = c)
    IN  [k \in 1..Len(mine) |-> mine[k].code]
C37_JoinReplies ==
    (input # <<>> /\ input.fn = "enter" /\ output # <<>>) =>
        LET c == input.client
            before == {m.id : m \in input.channel.members}
            after == {m.id : m \in output[1].channel.members}
            events == output[1].out
        IN  /\ c \in before =>
                 events = <<>> /\ output[1].channel = input.channel
            /\ (c \notin before /\ c \in after) =>
                 /\ CodesTo(events, c) =
                        <<"JOIN", IF input.channel.topic = "" THEN "331"
                                  ELSE "332">>
                        \o [k \in 1..Cardinality(after) |-> "353"]
                        \o <<"366">>
                 /\ \A k \in 1..Len(events) :
                      events[k].code = "JOIN" => events[k].nick = NickOf[c]
                 /\ \A d \in before : CodesTo(events, d) = <<"JOIN">>

\* C38: when the channel actor runs a MODE with mode arguments for a client
\* that is not an operator of the channel at that moment, the client is
\* answered with 482 and the channel (flags, masks, key, limit, members and
\* their privileges) stays as it is.
NotOperator(channel, c) ==
    \A m \in channel.members : m.id = c => "OperatorPrivilege" \notin m.flags
RunsModeOfNonOp(ch) ==
    /\ ActorAt(ch, "mode")
    /\ Len(Recv(chanQ[ch]).event.arg) > 1
    /\ NotOperator(chan[ch], Recv(chanQ[ch]).event.id)
    /\ executed'[ch] = Append(executed[ch], Recv(chanQ[ch]).event)
C38_NonOpModeRefused ==
    [][\A ch \in Chans :
          RunsModeOfNonOp(ch) =>
              /\ chan'[ch] = chan[ch]
              /\ clientQ' = Append(clientQ,
                                   Reply(Recv(chanQ[ch]).event.id, "482",
                                         info[Recv(chanQ[ch]).event.id].nick))
      ]_vars
\* The actor has just refused the MODE with arguments of a member without
\* the operator privilege.
C38_Witness ==
    \E ch \in Chans :
        /\ executed[ch] # <<>>
        /\ LET op == executed[ch][Len(executed[ch])]
           IN  /\ op.kind = "mode" /\ Len(op.arg) > 1
               /\ \E m \in chan[ch].members :
                    m.id = op.id /\ "OperatorPrivilege" \notin m.flags
               /\ clientQ = <<Reply(op.id, "482", info[op.id].nick)>>

\* C39: in every reachable channel state the index ClientId -> nickname
\* and the map nickname -> Member describe the same members: an id is in the
\* index exactly when one Member with that id is stored under the indexed
\* nickname, and both have the same size.
SameMembers(channel) ==
    /\ \A e \in channel.nicknames :
         /\ \E m \in channel.members : m.id = e[1] /\ m.nick = e[2]
         /\ Cardinality({m \in channel.members : m.id = e[1]}) = 1
    /\ \A m \in channel.members : <<m.id, m.nick>> \in channel.nicknames
    /\ Cardinality(channel.nicknames) = Cardinality(channel.members)
C39_IndexMatchesMembers == \A ch \in Chans : SameMembers(chan[ch])

\* C40: no line the reader yields as Ok contains a `\r`, a `\n` or a NUL
\* byte.
C40_NoTerminatorInLine ==
    \A k \in OkYields :
        \A i \in 1..Len(yields[k].line) : yields[k].line[i] \notin {CR, LF, NUL}
\* The peer has sent a `\r` inside a line; the line is yielded without it.
C40_Witness ==
    \E k \in OkYields, p \in 1..Len(sent) :
        /\ sent[p] = CR
        /\ p + 1 <= Len(sent) /\ sent[p + 1] \in Letters
        /\ p < yields[k].at
        /\ Len(yields[k].line) = 2
        /\ \A j \in 1..(k - 1) : yields[j].at < p

\* No function is under test.
InitPure == input = <<>> /\ output = <<>>

Init ==
    /\ InitReader /\ InitWriter /\ InitServer /\ InitChannels /\ InitEvents
    /\ InitIds /\ InitPure /\ InitLocks

SpecReader == Init /\ [][NextReader]_vars

SpecWriter == Init /\ [][NextWriter]_vars

Spec == Init /\ [][NextReg]_vars

\* The channels, from the state in which the clients have registered.
InitChan ==
    /\ InitReader /\ InitWriter /\ InitRegistered /\ InitChannels /\ InitEvents
    /\ InitIds /\ InitPure /\ InitLocks
SpecChan == InitChan /\ [][NextChan]_vars

\* One client registering and negotiating capabilities.
SpecCap == Init /\ [][NextCap]_vars

\* HostMask::matches on every mask and string of the bounds.
SpecMatches == InitMatches /\ [][CallMatches]_vars

\* modes_do on every parameter list of the bounds.
SpecModes == InitModes /\ [][CallModes]_vars

\* Message::new on every line of the bounds.
SpecParse == InitParse /\ [][CallParse]_vars

\* PRIVMSG and NOTICE lines of registered clients.
SpecMsg == InitChan /\ [][NextMsg]_vars

\* join::Handler on every JOIN line of the bounds.
SpecJoin == InitJoin /\ [][CallJoin]_vars

\* send_names and handle_who on every channel of the bounds.
SpecList == InitList /\ [][CallList]_vars

\* Clients that take nicknames, change them and leave.
SpecNick == Init /\ [][NextNick]_vars

\* One client that registers and joins a channel.
SpecFirst == Init /\ [][NextFirst]_vars

\* The readiness events of one connection; the Worker's event loop keeps
\* running.
SpecReady == Init /\ [][NextReady]_vars /\ WF_reported(EventTaken)

\* handle_privmsg on every channel of the bounds.
SpecSay == InitSay /\ [][CallSay]_vars

\* handle_join on every channel of the bounds.
SpecEnter == InitEnter /\ [][CallEnter]_vars

\* Registered clients that leave, join and take a nickname.
SpecRejoin == InitChan /\ [][NextRejoin]_vars

\* The threads that lock a client's User block.
SpecLocks == Init /\ [][NextLocks]_vars

\* Connections accepted and unregistered.
SpecIds == Init /\ [][NextIds]_vars

\* Hangups on registered connections; the event loops and the actor threads
\* keep running.
SpecHup == InitChan /\ [][NextHup]_vars /\ WF_vars(Threads)

====
